---------------------------- MODULE Spec2Model ----------------------------
(***************************************************************************)
(* A model of the BigThing daily decision pipeline (src/src/bigthing):     *)
(* the indicator library (utils.py), the regime engine (regime.py), the    *)
(* portfolio health engine (health.py), the opportunity scanner            *)
(* (scanner.py) and the capital allocation engine (allocator.py).          *)
(*                                                                         *)
(* Numbers.  Python floats are modelled by exact integer arithmetic:       *)
(*   - prices, money        : cents, the precision the code rounds to      *)
(*   - growth rates, margins: percent (0.05 in the code is 5 here)         *)
(*   - scanner sub-scores   : hundredths of a point (10000 is 100.0)       *)
(*   - scanner weights      : hundredths (0.30 in the code is 30 here)     *)
(*   - regime multiplier    : tenths (1.0 in the code is 10 here)          *)
(* A quotient a/b that the code compares with a threshold is compared      *)
(* after cross-multiplying; int(a/b) of positive a and b is a \div b.      *)
(***************************************************************************)
EXTENDS Integers, Sequences, FiniteSets, TLC

(***************************************************************************)
(* State.                                                                  *)
(*   inputs    the configuration (config.py) and the fetched MarketData    *)
(*   regime    analyze_regime: its macro frames, its counters and result   *)
(*   health    analyze_portfolio_health: loop index, outputs, totals       *)
(*   scanner   scan_opportunities: loop index, survivors, ranked result    *)
(*   allocator compute_allocation: loop index, plans, running cash         *)
(* Each *pc variable is the place its function has reached.                *)
(***************************************************************************)
VARIABLES total_value, max_positions, min_cash_pct, max_risk_pct,
          weights, top_n, cfg_holdings, daily, fundamentals, scan_order, today

VARIABLES macro, rpc, bullish_count, bearish_count, signals,
          classification, multiplier

VARIABLES hpc, hidx, holdings_out, actions, total_invested, total_current,
          health

VARIABLES spc, sidx, passed, candidates

VARIABLES apc, cidx, cash, freed_capital, min_cash_reserve, deployable,
          current_positions, open_slots, trim_exit_plans, buy_plans,
          risk_notes, weekly_plan

VARIABLES config_file, min_data_coverage_pct, ppc, coverage_checked, exc,
          reported, email_called, summary, report_file

VARIABLES swing_series, swing_window, swing_pc, swing_hh, swing_lh

inputVars == <<total_value, max_positions, min_cash_pct, max_risk_pct,
               weights, top_n, cfg_holdings, daily, fundamentals, scan_order,
               today>>

regimeVars == <<macro, rpc, bullish_count, bearish_count, signals,
                classification, multiplier>>

healthVars == <<hpc, hidx, holdings_out, actions, total_invested,
                total_current, health>>

scanVars == <<spc, sidx, passed, candidates>>

allocVars == <<apc, cidx, cash, freed_capital, min_cash_reserve, deployable,
               current_positions, open_slots, trim_exit_plans, buy_plans,
               risk_notes, weekly_plan>>

runVars == <<config_file, min_data_coverage_pct, ppc, coverage_checked, exc,
             reported, email_called, summary, report_file>>

swingVars == <<swing_series, swing_window, swing_pc, swing_hh, swing_lh>>

vars == <<inputVars, regimeVars, healthVars, scanVars, allocVars, runVars,
          swingVars>>

(***************************************************************************)
(* Small arithmetic helpers.                                               *)
(***************************************************************************)
Max(a, b) == IF a >= b THEN a ELSE b
Min(a, b) == IF a <= b THEN a ELSE b

\* Python's int(): truncation toward zero of the quotient num/den, den > 0.
IntDiv(num, den) == IF num >= 0 THEN num \div den ELSE -((-num) \div den)

\* round(num/den) to the nearest integer, ties to even (Python's round), den > 0.
RoundDiv(num, den) ==
    LET q == num \div den
        r == num % den
    IN  IF 2 * r < den THEN q
        ELSE IF 2 * r > den THEN q + 1
        ELSE IF q % 2 = 0 THEN q ELSE q + 1

(***************************************************************************)
(* Daily series.  A price series is a sequence of closes.  The model's     *)
(* input series are drawn from a family described by six numbers: the      *)
(* series has n bars; the bars more than StepBack bars before the end are  *)
(* at level lo, the later ones at level hi, with the bars PeakOneBack and  *)
(* PeakTwoBack before the end set to p1 and p2 and the last bar to last.   *)
(* Every indicator below is computed on the expanded sequence.             *)
(***************************************************************************)
StepBack == 25
PeakOneBack == 10
PeakTwoBack == 5

MkSeries(n, lo, hi, p1, p2, last) ==
    [i \in 1..n |->
        IF i = n THEN last
        ELSE IF i = n - PeakTwoBack THEN p2
        ELSE IF i = n - PeakOneBack THEN p1
        ELSE IF i > n - StepBack THEN hi
        ELSE lo]

\* stock.df["close"]: the closes of the frame d, as a sequence.
Close(d) == SubSeq(MkSeries(d.n, d.lo, d.hi, d.p1, d.p2, d.last), 1, d.n)

\* series.tail(k)
tail(s, k) == IF Len(s) <= k THEN s ELSE SubSeq(s, Len(s) - k + 1, Len(s))

\* s[from] + ... + s[to], summed by halves to keep the evaluation shallow.
RECURSIVE SumRange(_, _, _)
SumRange(s, from, to) ==
    IF from > to THEN 0
    ELSE IF from = to THEN s[from]
    ELSE LET mid == (from + to) \div 2
         IN  SumRange(s, from, mid) + SumRange(s, mid + 1, to)

SumSeq(s) == SumRange(s, 1, Len(s))

\* Sum of the `period` values of s that end at index `at`: period times the
\* rolling mean sma(s, period)[at], which is defined iff at >= period.
WindowSum(s, period, at) == SumRange(s, at - period + 1, at)

(***************************************************************************)
(* utils.py                                                                *)
(***************************************************************************)
\* sma(series, period).iloc[-1]: undefined (NaN) before `period` bars exist.
\* The mean is kept as the pair sum, period.
sma(series, period) ==
    IF Len(series) >= period /\ period > 0
    THEN [defined |-> TRUE, sum |-> WindowSum(series, period, Len(series)), period |-> period]
    ELSE [defined |-> FALSE, sum |-> 0, period |-> 1]

is_above_ma_ge(series, period) ==
    LET ma == sma(series, period)
    IN  IF ~ma.defined THEN FALSE
        ELSE series[Len(series)] * ma.period >= ma.sum

is_above_ma(series, period) ==
    LET ma == sma(series, period)
    IN  IF ~ma.defined THEN FALSE
        ELSE series[Len(series)] * ma.period > ma.sum

ma_trending_up(series, period, lookback) ==
    LET valid == Len(series) - period + 1   \* len(sma(...).dropna())
    IN  IF valid < lookback THEN FALSE
        ELSE WindowSum(series, period, Len(series))
               > WindowSum(series, period, Len(series) - lookback + 1)

\* A value that is not a number.
NaN == -1

\* series.dropna()
dropna(series) == SelectSeq(series, LAMBDA x : x # NaN)

\* The local peaks of arr, in order: arr[i] strictly above its two
\* neighbours on each side.
IsPeak(arr, i) ==
    /\ arr[i] > arr[i - 1] /\ arr[i] > arr[i - 2]
    /\ arr[i] > arr[i + 1] /\ arr[i] > arr[i + 2]

RECURSIVE PeaksIn(_, _, _)
PeaksIn(arr, from, to) ==
    IF from > to THEN <<>>
    ELSE IF from = to THEN (IF IsPeak(arr, from) THEN <<arr[from]>> ELSE <<>>)
    ELSE LET mid == (from + to) \div 2
         IN  PeaksIn(arr, from, mid) \o PeaksIn(arr, mid + 1, to)

\* for i in range(2, len(arr) - 2), with indices from 1.
Peaks(arr) == PeaksIn(arr, 3, Len(arr) - 2)

MinSwings == 2

higher_highs_ties(series, window) ==
    LET s == tail(dropna(series), window * 2)
        peaks == Peaks(s)
    IN  IF Len(s) < window THEN FALSE
        ELSE IF Len(peaks) < MinSwings THEN FALSE
        ELSE \A i \in 2..Len(peaks) : ~(peaks[i] < peaks[i - 1])

higher_highs(series, window) ==
    LET s == tail(dropna(series), window * 2)
        peaks == Peaks(s)
    IN  IF Len(s) < window THEN FALSE
        ELSE IF Len(peaks) < MinSwings THEN FALSE
        ELSE \A i \in 2..Len(peaks) : ~(peaks[i] <= peaks[i - 1])

lower_highs(series, window) ==
    LET s == tail(dropna(series), window * 2)
        peaks == Peaks(s)
    IN  IF Len(s) < window THEN FALSE
        ELSE IF Len(peaks) < MinSwings THEN FALSE
        ELSE \A i \in 2..Len(peaks) : ~(peaks[i] >= peaks[i - 1])

\* slope(series, window): the least-squares slope of the last `window` bars
\* over x = 0..k-1, divided by their mean.  With d(x) = 2x - (k-1) the
\* slope is 6*Sum(d(x)*y(x)) / (k*(k*k-1)) and the normalised slope is
\* 6*Sum(d(x)*y(x)) / ((k*k-1)*Sum(y)); it is returned as num/den, den > 0.
SlopeMoment(s) ==
    SumSeq([i \in 1..Len(s) |-> (2 * (i - 1) - (Len(s) - 1)) * s[i]])

slope(series, window) ==
    LET s == tail(series, window)
        k == Len(s)
    IN  IF k < Max(window \div 2, 5) THEN [num |-> 0, den |-> 1]
        ELSE IF SumSeq(s) = 0 THEN [num |-> 0, den |-> 1]
        ELSE IF SumSeq(s) > 0
             THEN [num |-> 6 * SlopeMoment(s), den |-> (k * k - 1) * SumSeq(s)]
             ELSE [num |-> -(6 * SlopeMoment(s)), den |-> -((k * k - 1) * SumSeq(s))]


\* relative_strength(stock, benchmark, days) as the fraction num/den of a
\* percentage point: ((s1-s0)/s0 - (b1-b0)/b0) * 100.  `raised` tells that
\* the code divides by a zero first price of the window (ZeroDivisionError).
relative_strength(stock, benchmark, days) ==
    IF Len(stock) < days \/ Len(benchmark) < days
    THEN [raised |-> FALSE, num |-> 0, den |-> 1]
    ELSE LET s0 == stock[Len(stock) - days + 1]
             s1 == stock[Len(stock)]
             b0 == benchmark[Len(benchmark) - days + 1]
             b1 == benchmark[Len(benchmark)]
         IN  IF s0 = 0 \/ b0 = 0
             THEN [raised |-> TRUE, num |-> 0, den |-> 1]
             ELSE [raised |-> FALSE,
                   num |-> 100 * ((s1 - s0) * b0 - (b1 - b0) * s0),
                   den |-> s0 * b0]

(***************************************************************************)
(* Market data.  A ticker's entry in MarketData.daily is absent            *)
(* (present = FALSE) or a StockDaily whose frame has n bars (n = 0: an     *)
(* empty frame).  vol_old and vol_new are the volume of the bars before    *)
(* and in the last five; rsi and atr are the values rsi_latest and atr     *)
(* return for the frame (rsi = NaN: undefined).                            *)
(***************************************************************************)
StockDaily(n, lo, hi, p1, p2, last, vol_old, vol_new, rsi_val, atr_val) ==
    [present |-> TRUE, n |-> n, lo |-> lo, hi |-> hi, p1 |-> p1, p2 |-> p2,
     last |-> last, vol_old |-> vol_old, vol_new |-> vol_new,
     rsi |-> rsi_val, atr |-> atr_val]

\* A frame of which only the closes are read.
Bars(n, lo, hi, p1, p2, last) ==
    StockDaily(n, lo, hi, p1, p2, last, 1, 1, NaN, 0)

\* An empty frame, and the absence of the ticker from the fetched data.
EmptyStock == Bars(0, 0, 0, 0, 0, 0)
NoStock == [EmptyStock EXCEPT !.present = FALSE]

HasBars(d) == d.present /\ d.n > 0

(***************************************************************************)
(* regime.py                                                               *)
(***************************************************************************)
RISK_ON == "RISK_ON"
NEUTRAL == "NEUTRAL"
RISK_OFF == "RISK_OFF"
Classifications == {RISK_ON, NEUTRAL, RISK_OFF}

MULTIPLIERS_swapped == [c \in Classifications |->
    IF c = RISK_ON THEN 10 ELSE IF c = NEUTRAL THEN 4 ELSE 7]

\* MULTIPLIERS, in tenths.
MULTIPLIERS == [c \in Classifications |->
    IF c = RISK_ON THEN 10 ELSE IF c = NEUTRAL THEN 7 ELSE 4]

\* RegimeConfig defaults.
ma_long == 200
ma_short == 50
trend_window == 20
vix_elevated_threshold == 25
treasury_window == 30

Classify_loose(bullish, bearish) ==
    IF bullish >= 3 /\ bearish <= 1 THEN RISK_ON
    ELSE IF bearish >= 4 THEN RISK_OFF
    ELSE NEUTRAL

Classify(bullish, bearish) ==
    IF bullish >= 4 /\ bearish <= 1 THEN RISK_ON
    ELSE IF bearish >= 4 THEN RISK_OFF
    ELSE NEUTRAL

(***************************************************************************)
(* analyze_regime.  `macro` is what fetch_daily returned for the three     *)
(* macro tickers; rpc is the section of analyze_regime that runs next.     *)
(***************************************************************************)
NoSignals == [spy_data |-> "", spy_vs_200ma |-> "", ma50_trend |-> "",
              price_structure |-> "", trend_20d |-> "", vix_level |-> "",
              vix_data |-> "", treasury_trend |-> "", treasury_data |-> ""]

\* The benchmark frames of the model: short and long histories, below and
\* above the old level, with every swing structure and both slope signs.
SpyInputs ==
    {NoStock, EmptyStock}
    \cup {Bars(n, 10, hi, hi + a, hi + b, hi + c) :
            n \in {60, 250}, hi \in {9, 12}, a \in 0..2, b \in 0..2, c \in {-1, 1}}

\* The volatility-index frames: the latest close decides.
VixInputs == {NoStock, EmptyStock}
             \cup {Bars(30, 20, 20, 20, 20, v) : v \in {20, 25, 26}}

\* The rate frames: flat, falling, rising by less and by more than 0.001.
TreasuryInputs == {NoStock, EmptyStock}
                  \cup {Bars(60, 6, 6, 6, 6, 6 + c) : c \in {-1, 0, 1}}
                  \cup {Bars(60, 40, 40, 40, 40, 41)}

RegimeInit ==
    /\ macro \in [spy : SpyInputs, vix : VixInputs, tnx : TreasuryInputs]
    /\ rpc = "spy"
    /\ bullish_count = 0
    /\ bearish_count = 0
    /\ signals = NoSignals
    /\ classification = "NONE"
    /\ multiplier = 0

\* regime.py 86-138: the four benchmark tests, or two bearish counts when
\* the benchmark frame is missing or empty.
SpySignals(spy) ==
    IF HasBars(spy)
    THEN LET close == Close(spy)
             above_200 == is_above_ma(close, ma_long)
             ma50_up == ma_trending_up(close, ma_short, trend_window)
             hh == higher_highs(close, trend_window)
             lh == lower_highs(close, trend_window)
             trend_slope == slope(close, trend_window)
         IN  [bullish |-> (IF above_200 THEN 1 ELSE 0) + (IF ma50_up THEN 1 ELSE 0)
                          + (IF hh THEN 1 ELSE 0)
                          + (IF trend_slope.num > 0 THEN 1 ELSE 0),
              bearish |-> (IF above_200 THEN 0 ELSE 1) + (IF ma50_up THEN 0 ELSE 1)
                          + (IF ~hh /\ lh THEN 1 ELSE 0)
                          + (IF trend_slope.num > 0 THEN 0 ELSE 1),
              signals |-> [NoSignals EXCEPT
                  !.spy_vs_200ma = IF above_200 THEN "ABOVE" ELSE "BELOW",
                  !.ma50_trend = IF ma50_up THEN "RISING" ELSE "FALLING",
                  !.price_structure = IF hh THEN "HIGHER_HIGHS"
                                      ELSE IF lh THEN "LOWER_HIGHS"
                                      ELSE "MIXED",
                  !.trend_20d = IF trend_slope.num > 0 THEN "UP" ELSE "DOWN"]]
    ELSE [bullish |-> 0, bearish |-> 2,
          signals |-> [NoSignals EXCEPT !.spy_data = "MISSING"]]

VixSignals_unweighted(vix, sig) ==
    IF HasBars(vix)
    THEN LET vix_close == Close(vix)
             vix_elevated == vix_close[Len(vix_close)] > vix_elevated_threshold
         IN  [bullish |-> IF vix_elevated THEN 0 ELSE 1,
              bearish |-> 0,
              signals |-> [sig EXCEPT
                  !.vix_level = IF vix_elevated THEN "ELEVATED" ELSE "NORMAL"]]
    ELSE [bullish |-> 0, bearish |-> 0,
          signals |-> [sig EXCEPT !.vix_data = "MISSING"]]

\* regime.py 140-155: the volatility index.
VixSignals(vix, sig) ==
    IF HasBars(vix)
    THEN LET vix_close == Close(vix)
             vix_elevated == vix_close[Len(vix_close)] > vix_elevated_threshold
         IN  [bullish |-> IF vix_elevated THEN 0 ELSE 1,
              bearish |-> IF vix_elevated THEN 1 ELSE 0,
              signals |-> [sig EXCEPT
                  !.vix_level = IF vix_elevated THEN "ELEVATED" ELSE "NORMAL"]]
    ELSE [bullish |-> 0, bearish |-> 0,
          signals |-> [sig EXCEPT !.vix_data = "MISSING"]]

TreasurySignals_any_rise(tnx, sig) ==
    IF HasBars(tnx)
    THEN LET t_trend == slope(Close(tnx), treasury_window)
         IN  [bullish |-> 0,
              bearish |-> IF t_trend.num > 0 THEN 1 ELSE 0,
              signals |-> [sig EXCEPT
                  !.treasury_trend = IF t_trend.num > 0 THEN "RISING" ELSE "FALLING"]]
    ELSE [bullish |-> 0, bearish |-> 0,
          signals |-> [sig EXCEPT !.treasury_data = "MISSING"]]

\* regime.py 157-169: rising rates are a headwind (t_trend > 0.001).
TreasurySignals(tnx, sig) ==
    IF HasBars(tnx)
    THEN LET t_trend == slope(Close(tnx), treasury_window)
         IN  [bullish |-> 0,
              bearish |-> IF t_trend.num * 1000 > t_trend.den THEN 1 ELSE 0,
              signals |-> [sig EXCEPT
                  !.treasury_trend = IF t_trend.num > 0 THEN "RISING" ELSE "FALLING"]]
    ELSE [bullish |-> 0, bearish |-> 0,
          signals |-> [sig EXCEPT !.treasury_data = "MISSING"]]

RegimeSpy ==
    /\ rpc = "spy"
    /\ LET r == SpySignals(macro.spy)
       IN  /\ bullish_count' = bullish_count + r.bullish
           /\ bearish_count' = bearish_count + r.bearish
           /\ signals' = r.signals
    /\ rpc' = "vix"
    /\ UNCHANGED <<macro, classification, multiplier>>
    /\ UNCHANGED <<swingVars, inputVars, runVars, healthVars, scanVars, allocVars>>

RegimeVix ==
    /\ rpc = "vix"
    /\ LET r == VixSignals(macro.vix, signals)
       IN  /\ bullish_count' = bullish_count + r.bullish
           /\ bearish_count' = bearish_count + r.bearish
           /\ signals' = r.signals
    /\ rpc' = "treasury"
    /\ UNCHANGED <<macro, classification, multiplier>>
    /\ UNCHANGED <<swingVars, inputVars, runVars, healthVars, scanVars, allocVars>>

RegimeTreasury ==
    /\ rpc = "treasury"
    /\ LET r == TreasurySignals(macro.tnx, signals)
       IN  /\ bullish_count' = bullish_count + r.bullish
           /\ bearish_count' = bearish_count + r.bearish
           /\ signals' = r.signals
    /\ rpc' = "classify"
    /\ UNCHANGED <<macro, classification, multiplier>>
    /\ UNCHANGED <<swingVars, inputVars, runVars, healthVars, scanVars, allocVars>>

\* regime.py 171-194: classification, multiplier and the returned result.
RegimeClassify ==
    /\ rpc = "classify"
    /\ classification' = Classify(bullish_count, bearish_count)
    /\ multiplier' = MULTIPLIERS[classification']
    /\ rpc' = "done"
    /\ UNCHANGED <<macro, bullish_count, bearish_count, signals>>
    /\ UNCHANGED <<swingVars, inputVars, runVars, healthVars, scanVars, allocVars>>

analyze_regime == RegimeSpy \/ RegimeVix \/ RegimeTreasury \/ RegimeClassify

\* The state analyze_regime ends in for the macro frames m: the four
\* sections above, run in order.
RegimeReturned(m) ==
    LET a == SpySignals(m.spy)
        b == VixSignals(m.vix, a.signals)
        c == TreasurySignals(m.tnx, b.signals)
        bull == a.bullish + b.bullish + c.bullish
        bear == a.bearish + b.bearish + c.bearish
    IN  /\ macro = m
        /\ rpc = "done"
        /\ bullish_count = bull
        /\ bearish_count = bear
        /\ signals = c.signals
        /\ classification = Classify(bull, bear)
        /\ multiplier = MULTIPLIERS[Classify(bull, bear)]

\* One run of analyze_regime for each classification, for the stages that
\* take the regime as an input.
RegimeSamples ==
    {[spy |-> Bars(250, 10, 12, 13, 14, 13), vix |-> Bars(30, 20, 20, 20, 20, 20),
      tnx |-> Bars(60, 6, 6, 6, 6, 6)],
     [spy |-> NoStock, vix |-> NoStock, tnx |-> NoStock],
     [spy |-> Bars(250, 10, 9, 11, 10, 8), vix |-> Bars(30, 20, 20, 20, 20, 26),
      tnx |-> Bars(60, 6, 6, 6, 6, 7)]}

RegimeDone == \E m \in RegimeSamples : RegimeReturned(m)

(***************************************************************************)
(* config.py and data_provider.py: holdings, fundamentals, market data.    *)
(* Holding.shares is a float: the model counts shares in units of          *)
(* 1/ShareDen of a share.  An absent Optional field is None.               *)
(***************************************************************************)
ShareDen == 2
None == -1000000

Holding(ticker, shares, avg_cost) ==
    [ticker |-> ticker, shares |-> shares, avg_cost |-> avg_cost]

FundamentalData(sector, revenue_growth, earnings_growth, profit_margin, forward_pe, next_earnings_date) ==
    [present |-> TRUE, sector |-> sector, revenue_growth |-> revenue_growth,
     earnings_growth |-> earnings_growth, profit_margin |-> profit_margin,
     forward_pe |-> forward_pe, next_earnings_date |-> next_earnings_date]

\* FundamentalData(ticker): every field at its default.
DefaultFund == FundamentalData("Unknown", None, None, None, None, None)

\* No entry for the ticker in MarketData.fundamentals.
NoFund == [DefaultFund EXCEPT !.present = FALSE]

(***************************************************************************)
(* health.py                                                               *)
(***************************************************************************)
RISK_ON_SECTORS ==
    {"Technology", "Consumer Cyclical", "Communication Services", "Financial Services"}
RISK_OFF_SECTORS ==
    {"Utilities", "Consumer Defensive", "Healthcare", "Real Estate"}

\* A zero-scored holding that would be kept rather than exited.
empty_holding_kept(h) ==
    [ticker |-> h.ticker, shares |-> h.shares, avg_cost |-> h.avg_cost,
     current_price |-> 0, unrealized_pnl_pct |-> 0,
     trend_score |-> 0, fundamental_score |-> 0, relative_strength_score |-> 0,
     macro_alignment_score |-> 0, total_score |-> 0,
     decision |-> "HOLD",
     pct_from_50ma |-> 0, pct_from_200ma |-> 0, suggested_stop |-> 0,
     risk_per_share |-> 0, position_value |-> 0, risk_as_pct_of_portfolio |-> 0,
     sector |-> "Unknown"]

\* health.py 284-294: the zero-scored holding.  ("EXIT" is also what
\* analyze_portfolio_health assigns to it at 116.)
empty_holding(h) ==
    [ticker |-> h.ticker, shares |-> h.shares, avg_cost |-> h.avg_cost,
     current_price |-> 0, unrealized_pnl_pct |-> 0,
     trend_score |-> 0, fundamental_score |-> 0, relative_strength_score |-> 0,
     macro_alignment_score |-> 0, total_score |-> 0,
     decision |-> "EXIT",
     pct_from_50ma |-> 0, pct_from_200ma |-> 0, suggested_stop |-> 0,
     risk_per_share |-> 0, position_value |-> 0, risk_as_pct_of_portfolio |-> 0,
     sector |-> "Unknown"]

\* health.py 131-148
TrendScore(close) ==
    (IF is_above_ma(close, 200) THEN 1 ELSE 0)
    + (IF is_above_ma(close, 50) THEN 1 ELSE 0)
    + (IF higher_highs(close, 30) THEN 1 ELSE 0)

\* health.py 150-173
FundamentalScore(fund) ==
    IF fund.present
    THEN (IF fund.revenue_growth # None /\ fund.revenue_growth > 0 THEN 1 ELSE 0)
         + (IF fund.earnings_growth # None /\ fund.earnings_growth > 0 THEN 1 ELSE 0)
         + (IF fund.profit_margin # None /\ fund.profit_margin > 5 THEN 1 ELSE 0)
    ELSE 0

\* health.py 175-187; rs is relative_strength's result.
RsScore_three(rs) ==
    IF rs.num > 5 * rs.den THEN 3
    ELSE IF rs.num > 0 THEN 1
    ELSE 0

RsScore(rs) ==
    IF rs.num > 5 * rs.den THEN 2
    ELSE IF rs.num > 0 THEN 1
    ELSE 0

\* health.py 189-215
MacroScore(fund, regime_class) ==
    LET sector == IF fund.present THEN fund.sector ELSE "Unknown"
    IN  (IF regime_class = RISK_ON /\ sector \in RISK_ON_SECTORS THEN 1
         ELSE IF regime_class = RISK_OFF /\ sector \in RISK_OFF_SECTORS THEN 1
         ELSE IF regime_class = NEUTRAL THEN 1
         ELSE 0)
        + (IF regime_class = RISK_ON THEN 1 ELSE 0)

Decision_shifted(total) ==
    IF total >= 8 THEN "STRONG HOLD"
    ELSE IF total >= 6 THEN "HOLD"
    ELSE IF total > 4 THEN "TRIM 25%"
    ELSE "EXIT"

\* health.py 220-227
Decision(total) ==
    IF total >= 8 THEN "STRONG HOLD"
    ELSE IF total >= 6 THEN "HOLD"
    ELSE IF total >= 4 THEN "TRIM 25%"
    ELSE "EXIT"

\* utils.pct_from_ma, rounded to 2 decimals: hundredths of a percent.
pct_from_ma(series, period) ==
    LET ma == sma(series, period)
    IN  IF ~ma.defined THEN 0
        ELSE IF ma.sum = 0 THEN 0
        ELSE RoundDiv((series[Len(series)] * ma.period - ma.sum) * 10000, ma.sum)

\* The stop and the risk per share, in hundredths of a cent before rounding:
\* price - 2*ATR, or price * 0.92 when the ATR is not positive.
SuggestedStop100(price, current_atr) ==
    IF current_atr > 0 THEN 100 * (price - 2 * current_atr) ELSE 92 * price

\* health.py 122-269: the HoldingHealth of a holding that has bars.
\* `rs` is the result of relative_strength when the code calls it.
ScoreHolding(h, stock, fund, regime_class, spy_close, portfolio_value) ==
    LET close == Close(stock)
        current_price == close[Len(close)]
        rs_called == Len(spy_close) > 0 /\ Len(close) >= 60
        rs == IF rs_called THEN relative_strength(close, spy_close, 60)
              ELSE [raised |-> FALSE, num |-> 0, den |-> 1]
        trend_score == TrendScore(close)
        fundamental_score == FundamentalScore(fund)
        rs_score == IF rs_called THEN RsScore(rs) ELSE 0
        macro_score == MacroScore(fund, regime_class)
        total == trend_score + fundamental_score + rs_score + macro_score
        stop100 == SuggestedStop100(current_price, stock.atr)
        risk100 == 100 * current_price - stop100
    IN  [ticker |-> h.ticker, shares |-> h.shares, avg_cost |-> h.avg_cost,
         current_price |-> current_price,
         unrealized_pnl_pct |->
             IF h.avg_cost > 0
             THEN RoundDiv((current_price - h.avg_cost) * 10000, h.avg_cost)
             ELSE 0,
         trend_score |-> trend_score, fundamental_score |-> fundamental_score,
         relative_strength_score |-> rs_score,
         macro_alignment_score |-> macro_score, total_score |-> total,
         decision |-> Decision(total),
         pct_from_50ma |-> pct_from_ma(close, 50),
         pct_from_200ma |-> pct_from_ma(close, 200),
         suggested_stop |-> RoundDiv(stop100, 100),
         risk_per_share |-> RoundDiv(risk100, 100),
         position_value |-> RoundDiv(h.shares * current_price, ShareDen),
         risk_as_pct_of_portfolio |->
             RoundDiv(h.shares * risk100 * 100, ShareDen * portfolio_value),
         sector |-> IF fund.present THEN fund.sector ELSE "Unknown"]

\* Whether scoring the holding raises (the division in relative_strength).
ScoreHoldingRaises(stock, spy_close) ==
    LET close == Close(stock)
    IN  /\ Len(spy_close) > 0 /\ Len(close) >= 60
        /\ relative_strength(close, spy_close, 60).raised

(***************************************************************************)
(* analyze_portfolio_health.  cfg_holdings is config.portfolio.holdings,   *)
(* daily and fundamentals are the MarketData maps, hidx the index of the   *)
(* holding the loop reaches next.  total_invested and total_current are    *)
(* the running sums, in 1/ShareDen cents; the returned totals are rounded  *)
(* to cents.                                                               *)
(***************************************************************************)
NoHealth == [total_invested |-> 0, total_current_value |-> 0,
             total_pnl_pct |-> 0, returned |-> FALSE]

SPY == "SPY"
HeldTickers == <<"AAA", "BBB">>
ScanTickers == <<"XXX", "YYY", "ZZZ">>

SeqToSet(q) == {q[i] : i \in 1..Len(q)}

AllTickers == {SPY} \cup SeqToSet(HeldTickers) \cup SeqToSet(ScanTickers)

\* market_data.daily's keys: the fetched tickers, in the order of the
\* sorted ticker list that pipeline.py 59-63 hands to fetch_all.
TickerOrder == <<"AAA", "BBB", SPY, "XXX", "YYY", "ZZZ">>

IsFetched(d, t) == d[t].present

DailyKeys(d) == SelectSeq(TickerOrder, LAMBDA t : IsFetched(d, t))

\* Largest number of shares of a holding, in whole shares.
MaxShares == 4

\* The portfolios of the model: whole and fractional share counts, with
\* and without a cost basis.
HoldingLists ==
    {<<Holding(HeldTickers[1], ShareDen * MaxShares, 10),
       Holding(HeldTickers[2], q2, c2)>> : q2 \in {1, ShareDen}, c2 \in {0, 12}}

\* The frames of the model.  Of a held ticker: long histories scoring 3, 2
\* and 0 trend points, a flat one with an ATR, a short one, and one that
\* starts at a zero price.  Of a scanned ticker: rising passes every filter
\* with the volume ratio exactly at the threshold; surging has a steeper
\* trend and a larger volume expansion; at_average closes exactly on its
\* 200-day average (2200 / 200 = 11) while its 50-day average rises; penny
\* has a risk per share that rounds to zero; each of the others fails one
\* filter.
Frames == [held_strong |-> Bars(250, 10, 12, 13, 14, 13),
           held_steady |-> Bars(250, 20, 20, 20, 20, 21),
           held_weak |-> Bars(250, 10, 9, 9, 9, 8),
           held_flat |-> [Bars(250, 10, 10, 10, 10, 10) EXCEPT !.atr = 1],
           held_short |-> Bars(30, 10, 10, 11, 12, 10),
           held_zero_start |-> Bars(250, 0, 10, 10, 10, 11),
           rising |-> StockDaily(250, 10, 12, 13, 14, 13, 4, 5, 55, 0),
           surging |-> StockDaily(250, 20, 30, 30, 30, 40, 2, 10, 45, 2),
           at_average |-> StockDaily(250, 10, 19, 10, 11, 11, 2, 10, 55, 0),
           below_average |-> StockDaily(250, 10, 9, 9, 9, 8, 2, 10, 55, 0),
           short_history |-> StockDaily(199, 10, 12, 13, 14, 13, 2, 10, 55, 0),
           fading_average |-> StockDaily(250, 10, 10, 10, 10, 11, 2, 10, 55, 0),
           no_rsi |-> StockDaily(250, 10, 12, 13, 14, 13, 2, 10, NaN, 0),
           overbought |-> StockDaily(250, 10, 12, 13, 14, 13, 2, 10, 66, 0),
           quiet |-> StockDaily(250, 10, 12, 13, 14, 13, 5, 5, 55, 0),
           no_volume |-> StockDaily(250, 10, 12, 13, 14, 13, 0, 0, 55, 0),
           zero_start |-> StockDaily(250, 0, 10, 10, 10, 11, 2, 10, 65, 0),
           penny |-> StockDaily(250, 4, 5, 5, 5, 6, 2, 10, 55, 0)]

\* The fundamentals records of the model.
Funds == [tech |-> FundamentalData("Technology", 10, 10, 10, 20, None),
          util |-> FundamentalData("Utilities", 0, -5, 5, None, None),
          energy |-> FundamentalData("Energy", 10, None, 6, 15, None),
          growth |-> FundamentalData("Technology", 50, 60, 10, 20, None),
          slow |-> FundamentalData("Utilities", 0, 5, 10, 20, 30),
          shrinking |-> FundamentalData("Energy", 10, -5, 10, 20, None),
          no_growth |-> FundamentalData("Energy", 10, 0, 10, 20, None),
          reporting |-> FundamentalData("Technology", 50, 60, 10, 20, 3),
          reported |-> FundamentalData("Technology", -80, 10, 10, 0, -2)]

\* What the market data holds for a held ticker: its frame and its
\* fundamentals record.
HeldProfiles ==
    {<<NoStock, NoFund>>, <<EmptyStock, Funds.tech>>,
     <<Frames.held_strong, Funds.tech>>, <<Frames.held_strong, NoFund>>,
     <<Frames.held_strong, Funds.util>>, <<Frames.held_steady, Funds.util>>,
     <<Frames.held_steady, Funds.energy>>, <<Frames.held_weak, DefaultFund>>,
     <<Frames.held_weak, Funds.util>>, <<Frames.held_flat, Funds.tech>>,
     <<Frames.held_short, Funds.energy>>, <<Frames.held_zero_start, Funds.tech>>}

BenchmarkInputs == {NoStock, Bars(250, 10, 10, 10, 10, 10)}

DefaultWeights == [trend |-> 30, fundamental |-> 25, relative_strength |-> 20,
                   volume |-> 15, valuation |-> 10]

\* PortfolioConfig and ScannerConfig values of the health runs.
HealthConfig ==
    /\ total_value = 10000
    /\ max_positions = 12
    /\ min_cash_pct = 10
    /\ max_risk_pct = 1
    /\ weights = DefaultWeights
    /\ top_n = 10
    /\ today = 0

HealthInputs ==
    /\ HealthConfig
    /\ cfg_holdings \in HoldingLists
    /\ \E spy \in BenchmarkInputs, held \in [SeqToSet(HeldTickers) -> HeldProfiles] :
          /\ daily = [t \in AllTickers |->
                        IF t = SPY THEN spy
                        ELSE IF t \in SeqToSet(HeldTickers) THEN held[t][1]
                        ELSE NoStock]
          /\ fundamentals = [t \in AllTickers |->
                        IF t \in SeqToSet(HeldTickers) THEN held[t][2] ELSE NoFund]
    /\ scan_order = DailyKeys(daily)

HealthStart ==
    /\ hpc = "loop"
    /\ hidx = 1
    /\ holdings_out = <<>>
    /\ actions = <<>>
    /\ total_invested = 0
    /\ total_current = 0
    /\ health = NoHealth

HealthIdle ==
    /\ hpc = "idle"
    /\ hidx = 1
    /\ holdings_out = <<>>
    /\ actions = <<>>
    /\ total_invested = 0
    /\ total_current = 0
    /\ health = NoHealth

\* health.py 106-107
SpyClose == IF daily[SPY].present THEN Close(daily[SPY]) ELSE <<>>

\* health.py 109-120: a holding without bars is marked for EXIT.
HealthNoData ==
    /\ hpc = "loop"
    /\ hidx <= Len(cfg_holdings)
    /\ LET h == cfg_holdings[hidx]
       IN  /\ ~HasBars(daily[h.ticker])
           /\ holdings_out' = Append(holdings_out, empty_holding(h))
           /\ actions' = Append(actions, <<"EXIT", h.ticker>>)
    /\ hidx' = hidx + 1
    /\ UNCHANGED <<hpc, total_invested, total_current, health>>
    /\ UNCHANGED <<swingVars, inputVars, runVars, regimeVars, scanVars, allocVars>>

\* health.py 122-269: a holding with bars is scored.
HealthScore ==
    /\ hpc = "loop"
    /\ hidx <= Len(cfg_holdings)
    /\ LET h == cfg_holdings[hidx]
           stock == daily[h.ticker]
           hh == ScoreHolding(h, stock, fundamentals[h.ticker], classification,
                              SpyClose, total_value)
       IN  /\ HasBars(stock)
           /\ ~ScoreHoldingRaises(stock, SpyClose)
           /\ total_invested' = total_invested + h.shares * h.avg_cost
           /\ total_current' = total_current + h.shares * hh.current_price
           /\ holdings_out' = Append(holdings_out, hh)
           /\ actions' = IF hh.decision \in {"TRIM 25%", "EXIT"}
                         THEN Append(actions, <<hh.decision, h.ticker>>)
                         ELSE actions
    /\ hidx' = hidx + 1
    /\ UNCHANGED <<hpc, health>>
    /\ UNCHANGED <<swingVars, inputVars, runVars, regimeVars, scanVars, allocVars>>

\* relative_strength divides by a zero price: the call raises.
HealthRaise ==
    /\ hpc = "loop"
    /\ hidx <= Len(cfg_holdings)
    /\ LET stock == daily[cfg_holdings[hidx].ticker]
       IN  HasBars(stock) /\ ScoreHoldingRaises(stock, SpyClose)
    /\ hpc' = "raised"
    /\ UNCHANGED <<hidx, holdings_out, actions, total_invested, total_current,
                   health>>
    /\ UNCHANGED <<swingVars, inputVars, runVars, regimeVars, scanVars, allocVars>>

\* health.py 271-281: the returned PortfolioHealthResult.
HealthReturn ==
    /\ hpc = "loop"
    /\ hidx > Len(cfg_holdings)
    /\ health' = [total_invested |-> RoundDiv(total_invested, ShareDen),
                  total_current_value |-> RoundDiv(total_current, ShareDen),
                  total_pnl_pct |->
                      IF total_invested > 0
                      THEN RoundDiv((total_current - total_invested) * 10000,
                                    total_invested)
                      ELSE 0,
                  returned |-> TRUE]
    /\ hpc' = "done"
    /\ UNCHANGED <<hidx, holdings_out, actions, total_invested, total_current>>
    /\ UNCHANGED <<swingVars, inputVars, runVars, regimeVars, scanVars, allocVars>>

analyze_portfolio_health == HealthNoData \/ HealthScore \/ HealthRaise \/ HealthReturn

(***************************************************************************)
(* The stages that have not started.                                       *)
(***************************************************************************)
ScanIdle ==
    /\ spc = "idle"
    /\ sidx = 1
    /\ passed = <<>>
    /\ candidates = <<>>

AllocIdle ==
    /\ apc = "idle"
    /\ cidx = 1
    /\ cash = 0
    /\ freed_capital = 0
    /\ min_cash_reserve = 0
    /\ deployable = 0
    /\ current_positions = 0
    /\ open_slots = 0
    /\ trim_exit_plans = <<>>
    /\ buy_plans = <<>>
    /\ risk_notes = <<>>
    /\ weekly_plan = <<>>

\* A stage called on its own: no run of scripts/daily_report.py is under
\* way.
NoException == [type |-> "none", origin |-> "none"]

RunIdle ==
    /\ config_file = "ok"
    /\ min_data_coverage_pct = 0
    /\ ppc = "idle"
    /\ coverage_checked = FALSE
    /\ exc = NoException
    /\ reported = ""
    /\ email_called = FALSE
    /\ summary = FALSE
    /\ report_file = FALSE

\* No call of higher_highs or lower_highs is being followed on its own.
SwingIdle ==
    /\ swing_series = <<>>
    /\ swing_window = 0
    /\ swing_pc = "idle"
    /\ swing_hh = FALSE
    /\ swing_lh = FALSE

\* pipeline.py 38: the regime is analysed before any market data is fetched.
RegimeInputs ==
    /\ HealthConfig
    /\ cfg_holdings \in HoldingLists
    /\ scan_order = <<>>
    /\ daily = [t \in AllTickers |-> NoStock]
    /\ fundamentals = [t \in AllTickers |-> NoFund]

(***************************************************************************)
(* Specification of the regime engine: analyze_regime on every             *)
(* combination of macro frames.                                            *)
(***************************************************************************)
InitRegime == RegimeInputs /\ RegimeInit /\ HealthIdle /\ ScanIdle /\ AllocIdle /\ RunIdle /\ SwingIdle

NextRegime == analyze_regime

SpecRegime == InitRegime /\ [][NextRegime]_vars

(***************************************************************************)
(* Specification of the health engine: analyze_portfolio_health after a    *)
(* finished regime analysis, on every portfolio and market data of the     *)
(* model.                                                                  *)
(***************************************************************************)
InitHealth == RegimeDone /\ HealthInputs /\ HealthStart /\ ScanIdle /\ AllocIdle /\ RunIdle /\ SwingIdle

NextHealth == analyze_portfolio_health

SpecHealth == InitHealth /\ [][NextHealth]_vars

(***************************************************************************)
(* Properties of the regime engine.                                        *)
(***************************************************************************)
\* C3: the result returned by analyze_regime has multiplier 1.0 when the
\* classification is RISK_ON, 0.7 when NEUTRAL and 0.4 when RISK_OFF, and
\* no other (classification, multiplier) pair is produced, whichever of the
\* benchmark, volatility and rate frames are present or missing.
C3_MultiplierOfClassification ==
    rpc = "done" =>
        <<classification, multiplier>>
            \in {<<RISK_ON, 10>>, <<NEUTRAL, 7>>, <<RISK_OFF, 4>>}

\* A finished analysis that is RISK_OFF with the benchmark missing, and so
\* with multiplier 0.4.
C3_Witness ==
    /\ rpc = "done"
    /\ ~macro.spy.present
    /\ classification = RISK_OFF
    /\ multiplier = 4

\* C4: analyze_regime classifies RISK_ON exactly when bullish >= 4 and
\* bearish <= 1, RISK_OFF exactly when bearish >= 4, NEUTRAL in every other
\* case; exactly one of the three holds for every reachable pair of counts.
C4_ClassificationThresholds ==
    rpc = "done" =>
        /\ classification \in {RISK_ON, NEUTRAL, RISK_OFF}
        /\ classification = RISK_ON <=> (bullish_count >= 4 /\ bearish_count <= 1)
        /\ classification = RISK_OFF <=> bearish_count >= 4
        /\ classification = NEUTRAL <=>
               (~(bullish_count >= 4 /\ bearish_count <= 1) /\ ~(bearish_count >= 4))
        /\ ~((bullish_count >= 4 /\ bearish_count <= 1) /\ bearish_count >= 4)

\* A finished analysis one bullish signal short of RISK_ON, with at most
\* one bearish signal: it is NEUTRAL.
C4_Witness ==
    /\ rpc = "done"
    /\ bullish_count = 3
    /\ bearish_count <= 1
    /\ classification = NEUTRAL

(***************************************************************************)
(* Properties of the health engine.                                        *)
(***************************************************************************)
\* How severe a decision is: EXIT is the most severe.
Severity(decision) ==
    IF decision = "STRONG HOLD" THEN 0
    ELSE IF decision = "HOLD" THEN 1
    ELSE IF decision = "TRIM 25%" THEN 2
    ELSE 3

\* C5: the decision of every reported holding, the no-data holding
\* included, is fixed by its total: 8, 9, 10 give STRONG HOLD; 6, 7 give
\* HOLD; 4, 5 give TRIM 25%; 0..3 give EXIT.  So a holding with a higher
\* total never has a more severe decision than one with a lower total.
C5_DecisionStepFunction ==
    /\ \A i \in 1..Len(holdings_out) :
          LET o == holdings_out[i]
          IN  /\ o.total_score \in {8, 9, 10} => o.decision = "STRONG HOLD"
              /\ o.total_score \in {6, 7} => o.decision = "HOLD"
              /\ o.total_score \in {4, 5} => o.decision = "TRIM 25%"
              /\ o.total_score \in {0, 1, 2, 3} => o.decision = "EXIT"
              /\ o.total_score \in 0..10
    /\ \A i, j \in 1..Len(holdings_out) :
          holdings_out[i].total_score > holdings_out[j].total_score
              => Severity(holdings_out[i].decision) <= Severity(holdings_out[j].decision)

\* A portfolio reported with one holding at total 4 (TRIM 25%) next to one
\* at a total below 4 (EXIT): the 3/4 boundary.
C5_Witness ==
    /\ Len(holdings_out) = 2
    /\ \E i, j \in 1..2 :
          /\ holdings_out[i].total_score = 4
          /\ holdings_out[i].decision = "TRIM 25%"
          /\ holdings_out[j].total_score < 4
          /\ holdings_out[j].decision = "EXIT"

\* C6: every reported holding has a trend score in 0..3, a fundamental
\* score in 0..3, a relative-strength score in 0..2, a macro-alignment
\* score in 0..2, and a total that is their sum and lies in 0..10.
C6_SubScoreRanges ==
    \A i \in 1..Len(holdings_out) :
        LET o == holdings_out[i]
        IN  /\ o.trend_score \in 0..3
            /\ o.fundamental_score \in 0..3
            /\ o.relative_strength_score \in 0..2
            /\ o.macro_alignment_score \in 0..2
            /\ o.total_score = o.trend_score + o.fundamental_score
                               + o.relative_strength_score + o.macro_alignment_score
            /\ o.total_score \in 0..10

\* A scored holding with every sub-score at its maximum: total 10.
C6_Witness ==
    \E i \in 1..Len(holdings_out) :
        /\ HasBars(daily[holdings_out[i].ticker])
        /\ holdings_out[i].trend_score = 3
        /\ holdings_out[i].fundamental_score = 3
        /\ holdings_out[i].relative_strength_score = 2
        /\ holdings_out[i].macro_alignment_score = 2
        /\ holdings_out[i].total_score = 10

\* The part of the running total that the first k holdings with bars
\* contribute, for the per-share amount `amount`.
RECURSIVE SumWithBars(_, _)
SumWithBars(k, amount) ==
    IF k = 0 THEN 0
    ELSE SumWithBars(k - 1, amount)
         + (IF HasBars(daily[cfg_holdings[k].ticker])
            THEN cfg_holdings[k].shares * amount[k] ELSE 0)

\* C9: a held ticker with no series or an empty series is reported with
\* decision EXIT, the four sub-scores and the total 0, and zero price,
\* position value and risk metrics; it adds nothing to the invested and
\* current totals; the holdings after it are still reported.
C9_NoDataHolding ==
    /\ \A i \in 1..Len(holdings_out) :
          LET o == holdings_out[i]
          IN  ~HasBars(daily[cfg_holdings[i].ticker]) =>
                  /\ o.ticker = cfg_holdings[i].ticker
                  /\ o.decision = "EXIT"
                  /\ o.decision \notin {"HOLD", "STRONG HOLD", "TRIM 25%"}
                  /\ o.trend_score = 0 /\ o.fundamental_score = 0
                  /\ o.relative_strength_score = 0 /\ o.macro_alignment_score = 0
                  /\ o.total_score = 0
                  /\ o.current_price = 0 /\ o.position_value = 0
                  /\ o.suggested_stop = 0 /\ o.risk_per_share = 0
                  /\ o.risk_as_pct_of_portfolio = 0
                  /\ <<"EXIT", o.ticker>> \in SeqToSet(actions)
    /\ total_invested =
          SumWithBars(Len(holdings_out), [k \in 1..Len(cfg_holdings) |-> cfg_holdings[k].avg_cost])
    /\ total_current =
          SumWithBars(Len(holdings_out), [k \in 1..Len(holdings_out) |-> holdings_out[k].current_price])
    /\ hpc = "done" => Len(holdings_out) = Len(cfg_holdings)

\* A finished run whose first holding has no data and whose second holding
\* was scored after it with a positive total, and a cost basis in the totals.
C9_Witness ==
    /\ hpc = "done"
    /\ Len(holdings_out) = 2
    /\ ~HasBars(daily[cfg_holdings[1].ticker])
    /\ holdings_out[1].decision = "EXIT"
    /\ HasBars(daily[cfg_holdings[2].ticker])
    /\ holdings_out[2].total_score > 0
    /\ health.total_invested > 0

(***************************************************************************)
(* scanner.py.  A sub-score is kept in hundredths of a point, a weight in  *)
(* hundredths, so that a product of the two is in 1/10000 of a point.      *)
(***************************************************************************)
\* ScannerConfig defaults.  The volume threshold 1.2 is kept in tenths.
rsi_min == 45
rsi_max == 65
volume_expansion_threshold == 12
volume_lookback == 30
earnings_blackout_days == 5
RecentVolumeBars == 5
HistoryBars == 200
TrendSlopeWindow == 50
RsDays == 60

\* floor(num * 100^k / den) for num >= 0 and den > 0, one factor of 100 at a
\* time so that no intermediate product leaves the range of a machine integer.
RECURSIVE ScaledDiv(_, _, _)
ScaledDiv(num, den, k) ==
    IF k = 0 THEN num \div den
    ELSE (num \div den) * (100 ^ k) + ScaledDiv((num % den) * 100, den, k - 1)

\* Sum of the last k volumes of the frame d.
VolumeSum(d, k) ==
    LET bars == Min(k, d.n)
    IN  IF bars <= RecentVolumeBars THEN bars * d.vol_new
        ELSE RecentVolumeBars * d.vol_new + (bars - RecentVolumeBars) * d.vol_old

\* scanner.py 135-137: vol_ratio as the fraction num/den; 0 when the
\* average volume is not positive.
VolRatio(d) ==
    LET recent == VolumeSum(d, RecentVolumeBars)
        avg == VolumeSum(d, volume_lookback)
    IN  IF avg > 0
        THEN [num |-> recent * volume_lookback, den |-> avg * RecentVolumeBars]
        ELSE [num |-> 0, den |-> 1]

\* scanner.py 111
HasHistory(stock) == stock.n >= HistoryBars

\* scanner.py 119, 123: the two moving-average filters.
FilterAbove200(stock) == is_above_ma(Close(stock), 200)
FilterMa50Rising(stock) == ma_trending_up(Close(stock), 50, 20)

\* scanner.py 127-129: rsi_latest is defined and within [rsi_min, rsi_max].
FilterRsi(stock) == stock.rsi # NaN /\ rsi_min <= stock.rsi /\ stock.rsi <= rsi_max

\* scanner.py 132-139
FilterVolume(stock) ==
    /\ stock.n >= volume_lookback
    /\ ~(VolRatio(stock).num * 10 < volume_expansion_threshold * VolRatio(stock).den)

\* scanner.py 142-144: a known earnings growth must be positive.
FilterEarningsGrowth(fund) ==
    ~(fund.present /\ fund.earnings_growth # None /\ fund.earnings_growth <= 0)

\* scanner.py 148-156: no earnings date within the blackout window.
FilterBlackout(fund, now) ==
    ~(/\ fund.present
      /\ fund.next_earnings_date # None
      /\ 0 <= fund.next_earnings_date - now
      /\ fund.next_earnings_date - now <= earnings_blackout_days)

\* scanner.py 110-156: the ticker reaches passed.append.
PassesFilters(stock, fund, now) ==
    /\ HasHistory(stock)
    /\ FilterAbove200(stock)
    /\ FilterMa50Rising(stock)
    /\ FilterRsi(stock)
    /\ FilterVolume(stock)
    /\ FilterEarningsGrowth(fund)
    /\ FilterBlackout(fund, now)

\* scanner.py 217-218: slope * 10000 cut to [0, 100].
TrendRaw(close) ==
    LET s == slope(close, TrendSlopeWindow)
    IN  IF s.num <= 0 THEN 0
        ELSE IF s.num * 100 >= s.den THEN 10000
        ELSE ScaledDiv(s.num, s.den, 3)

\* scanner.py 221-226; growth rates are in percent.
FundRaw(fund) ==
    IF fund.present
    THEN LET eg == IF fund.earnings_growth # None THEN fund.earnings_growth ELSE 0
             rg == IF fund.revenue_growth # None THEN fund.revenue_growth ELSE 0
         IN  Max(Min(50 * (eg + rg) + 5000, 10000), 0)
    ELSE 5000

\* scanner.py 229-232
RsRaw(close, spy_close) ==
    IF Len(spy_close) > 0 /\ Len(close) >= RsDays
    THEN LET rs_val == relative_strength(close, spy_close, RsDays)
         IN  Min(Max((100 * rs_val.num) \div rs_val.den + 5000, 0), 10000)
    ELSE 5000

\* scanner.py 235-236
VolRaw(vol_ratio) ==
    Max(Min((20000 * (vol_ratio.num - vol_ratio.den)) \div vol_ratio.den + 5000, 10000), 0)

\* scanner.py 239-249; forward_pe and earnings_growth count only when they
\* are neither absent nor zero.
ValRaw(fund) ==
    IF fund.present /\ fund.forward_pe # None /\ fund.forward_pe # 0
       /\ fund.earnings_growth # None /\ fund.earnings_growth # 0
    THEN IF fund.earnings_growth > 0
         THEN IF fund.forward_pe < fund.earnings_growth THEN 8000
              ELSE IF fund.forward_pe < 2 * fund.earnings_growth THEN 6000
              ELSE IF fund.forward_pe < 3 * fund.earnings_growth THEN 4000
              ELSE 2000
         ELSE 2000
    ELSE 5000

\* scanner.py 252-258: the composite, in 1/10000 of a point.
WeightedSum(trend_raw, fund_raw, rs, vol_raw, val_raw, w) ==
    trend_raw * w.trend + fund_raw * w.fundamental + rs * w.relative_strength
    + vol_raw * w.volume + val_raw * w.valuation

\* round(x, 1) of a sub-score kept in hundredths.
RoundTenth(x) == 10 * RoundDiv(x, 10)

\* scanner.py 196-309: the Candidate of an item of `passed`.
score_candidate(item, stock, fund, w, spy_close, portfolio_value, risk_pct, regime_multiplier) ==
    LET close == Close(stock)
        current_price == close[Len(close)]
        trend_raw == TrendRaw(close)
        fund_raw == FundRaw(fund)
        rs == RsRaw(close, spy_close)
        vol_raw == VolRaw(item.vol_ratio)
        val_raw == ValRaw(fund)
        composite == WeightedSum(trend_raw, fund_raw, rs, vol_raw, val_raw, w)
        stop100 == SuggestedStop100(current_price, stock.atr)
        risk100 == 100 * current_price - stop100
        ma50 == sma(close, 50)
        pos_size == IF risk100 > 0
                    THEN IntDiv(portfolio_value * risk_pct * regime_multiplier, 10 * risk100)
                    ELSE 0
    IN  [ticker |-> item.ticker,
         sector |-> IF fund.present THEN fund.sector ELSE "Unknown",
         current_price |-> current_price,
         composite_score |-> RoundDiv(composite, 100),
         trend_strength |-> RoundTenth(trend_raw),
         fundamental_growth |-> RoundTenth(fund_raw),
         rel_strength |-> RoundTenth(rs),
         volume_expansion |-> RoundTenth(vol_raw),
         valuation_vs_growth |-> RoundTenth(val_raw),
         entry_zone_low |->
             IF ma50.defined /\ ma50.sum * 100 <= 98 * current_price * ma50.period
             THEN RoundDiv(ma50.sum, ma50.period)
             ELSE RoundDiv(98 * current_price, 100),
         entry_zone_high |-> current_price,
         suggested_stop |-> RoundDiv(stop100, 100),
         risk_per_share |-> RoundDiv(risk100, 100),
         position_size_shares |-> pos_size,
         capital_required |-> pos_size * current_price,
         rsi |-> item.rsi]

\* Whether scoring the item raises (the division in relative_strength).
ScoreCandidateRaises(stock, spy_close) ==
    LET close == Close(stock)
    IN  /\ Len(spy_close) > 0 /\ Len(close) >= RsDays
        /\ relative_strength(close, spy_close, RsDays).raised

\* list.sort(key=composite_score, reverse=True): a stable sort, so equal
\* scores keep the order in which they were scored.
RECURSIVE InsertByScore(_, _)
InsertByScore(sorted, c) ==
    IF sorted = <<>> THEN <<c>>
    ELSE IF Head(sorted).composite_score >= c.composite_score
         THEN <<Head(sorted)>> \o InsertByScore(Tail(sorted), c)
         ELSE <<c>> \o sorted

RECURSIVE SortByScore(_)
SortByScore(scored) ==
    IF scored = <<>> THEN <<>>
    ELSE InsertByScore(SortByScore(SubSeq(scored, 1, Len(scored) - 1)),
                       scored[Len(scored)])

Top_tail(scored, k) ==
    SubSeq(scored, Len(scored) - Min(k, Len(scored)) + 1, Len(scored))

\* scored[: top_n] for top_n >= 0.
Top(scored, k) == SubSeq(scored, 1, Min(k, Len(scored)))

(***************************************************************************)
(* scan_opportunities.  scan_order is the order of market_data.daily's     *)
(* keys, sidx the index of the key the loop reaches next, passed the list  *)
(* of items that passed the filters, candidates the returned top list.     *)
(***************************************************************************)
\* scanner.py 101-102
ScanSpyClose == IF daily[SPY].present THEN Close(daily[SPY]) ELSE <<>>

\* The held set left empty: every ticker with data is screened.
held_tickers_none == {}

\* scanner.py 106
held_tickers == {cfg_holdings[i].ticker : i \in 1..Len(cfg_holdings)}

\* scanner.py 173-178: the candidates scored from `passed`, in its order.
Scored(items) ==
    [i \in 1..Len(items) |->
        score_candidate(items[i], daily[items[i].ticker], fundamentals[items[i].ticker],
                        weights, ScanSpyClose, total_value, max_risk_pct, multiplier)]

\* pipeline.py 93, scanner.py 98-102: the scanner is entered once the health
\* analysis has returned.
ScanStart ==
    /\ hpc = "done"
    /\ spc = "idle"
    /\ spc' = "loop"
    /\ sidx' = 1
    /\ passed' = <<>>
    /\ UNCHANGED candidates
    /\ UNCHANGED <<swingVars, inputVars, runVars, regimeVars, healthVars, allocVars>>

\* scanner.py 105-108: a ticker of the portfolio is skipped.
ScanSkipHeld ==
    /\ spc = "loop"
    /\ sidx <= Len(scan_order)
    /\ scan_order[sidx] \in held_tickers
    /\ sidx' = sidx + 1
    /\ UNCHANGED <<spc, passed, candidates>>
    /\ UNCHANGED <<swingVars, inputVars, runVars, regimeVars, healthVars, allocVars>>

\* scanner.py 110-156: a ticker that fails the history test or a filter.
ScanReject ==
    /\ spc = "loop"
    /\ sidx <= Len(scan_order)
    /\ scan_order[sidx] \notin held_tickers
    /\ ~PassesFilters(daily[scan_order[sidx]], fundamentals[scan_order[sidx]], today)
    /\ sidx' = sidx + 1
    /\ UNCHANGED <<spc, passed, candidates>>
    /\ UNCHANGED <<swingVars, inputVars, runVars, regimeVars, healthVars, allocVars>>

\* scanner.py 158-165: a ticker that passes every filter.
ScanPass ==
    /\ spc = "loop"
    /\ sidx <= Len(scan_order)
    /\ scan_order[sidx] \notin held_tickers
    /\ LET stock == daily[scan_order[sidx]]
       IN  /\ PassesFilters(stock, fundamentals[scan_order[sidx]], today)
           /\ passed' = Append(passed, [ticker |-> scan_order[sidx],
                                        rsi |-> stock.rsi,
                                        vol_ratio |-> VolRatio(stock)])
    /\ sidx' = sidx + 1
    /\ UNCHANGED <<spc, candidates>>
    /\ UNCHANGED <<swingVars, inputVars, runVars, regimeVars, healthVars, allocVars>>

\* scanner.py 171-189: score, sort by composite, keep the top_n.
ScanReturn ==
    /\ spc = "loop"
    /\ sidx > Len(scan_order)
    /\ \A i \in 1..Len(passed) : ~ScoreCandidateRaises(daily[passed[i].ticker], ScanSpyClose)
    /\ candidates' = Top(SortByScore(Scored(passed)), top_n)
    /\ spc' = "done"
    /\ UNCHANGED <<sidx, passed>>
    /\ UNCHANGED <<swingVars, inputVars, runVars, regimeVars, healthVars, allocVars>>

\* relative_strength divides by a zero price while an item is scored.
ScanRaise ==
    /\ spc = "loop"
    /\ sidx > Len(scan_order)
    /\ \E i \in 1..Len(passed) : ScoreCandidateRaises(daily[passed[i].ticker], ScanSpyClose)
    /\ spc' = "raised"
    /\ UNCHANGED <<sidx, passed, candidates>>
    /\ UNCHANGED <<swingVars, inputVars, runVars, regimeVars, healthVars, allocVars>>

scan_opportunities ==
    ScanStart \/ ScanSkipHeld \/ ScanReject \/ ScanPass \/ ScanReturn \/ ScanRaise

(***************************************************************************)
(* The market data of the scanner runs.                                    *)
(***************************************************************************)
\* What the market data holds for the first scanned ticker.
ScanProfiles ==
    {<<NoStock, NoFund>>, <<EmptyStock, NoFund>>,
     <<Frames.rising, NoFund>>, <<Frames.rising, Funds.growth>>, <<Frames.rising, Funds.slow>>,
     <<Frames.rising, DefaultFund>>, <<Frames.rising, Funds.shrinking>>,
     <<Frames.rising, Funds.no_growth>>, <<Frames.rising, Funds.reporting>>,
     <<Frames.rising, Funds.reported>>,
     <<Frames.surging, Funds.growth>>, <<Frames.surging, Funds.slow>>,
     <<Frames.at_average, Funds.growth>>, <<Frames.below_average, Funds.growth>>,
     <<Frames.short_history, Funds.growth>>, <<Frames.fading_average, Funds.growth>>,
     <<Frames.no_rsi, Funds.growth>>, <<Frames.overbought, Funds.growth>>,
     <<Frames.quiet, Funds.growth>>, <<Frames.no_volume, Funds.growth>>,
     <<Frames.zero_start, Funds.growth>>, <<Frames.penny, Funds.growth>>}

\* The configured weights, in hundredths: the defaults, and the defaults
\* doubled.
DoubledWeights == [trend |-> 60, fundamental |-> 50, relative_strength |-> 40,
                   volume |-> 30, valuation |-> 20]
WeightSets == {DefaultWeights, DoubledWeights}

\* Largest top_n of the scanner runs.
MaxTopN == 2

MarketOf(spy, held, x, y, z) ==
    [t \in AllTickers |->
        IF t = SPY THEN <<spy, NoFund>>
        ELSE IF t = HeldTickers[1] THEN held[1]
        ELSE IF t = HeldTickers[2] THEN held[2]
        ELSE IF t = ScanTickers[1] THEN x
        ELSE IF t = ScanTickers[2] THEN y
        ELSE z]

ScanInputs ==
    /\ total_value = 10000
    /\ max_positions = 12
    /\ min_cash_pct = 10
    /\ max_risk_pct = 1
    /\ today = 0
    /\ weights \in WeightSets
    /\ top_n \in {1, MaxTopN}
    /\ cfg_holdings = <<Holding(HeldTickers[1], ShareDen * MaxShares, 10),
                        Holding(HeldTickers[2], 1, 12)>>
    \* The portfolio: a scored holding next to one whose data is missing,
    \* or a holding whose scoring raises.
    /\ \E spy \in BenchmarkInputs,
          held \in {<<<<Frames.held_strong, Funds.tech>>, <<NoStock, NoFund>>>>,
                    <<<<Frames.held_weak, DefaultFund>>,
                      <<Frames.held_zero_start, Funds.tech>>>>},
          x \in ScanProfiles,
          y \in {<<Frames.rising, Funds.growth>>, <<Frames.surging, Funds.slow>>,
                 <<NoStock, NoFund>>},
          z \in {<<Frames.surging, Funds.growth>>, <<Frames.at_average, Funds.growth>>} :
          LET market == MarketOf(spy, held, x, y, z)
          IN  /\ daily = [t \in AllTickers |-> market[t][1]]
              /\ fundamentals = [t \in AllTickers |-> market[t][2]]
              /\ scan_order = DailyKeys(daily)

(***************************************************************************)
(* Specification of the scanner: the pipeline from the health analysis to  *)
(* the return of scan_opportunities.                                       *)
(***************************************************************************)
InitScan == RegimeDone /\ ScanInputs /\ HealthStart /\ ScanIdle /\ AllocIdle /\ RunIdle /\ SwingIdle

NextScan == analyze_portfolio_health \/ scan_opportunities

SpecScan == InitScan /\ [][NextScan]_vars

(***************************************************************************)
(* Properties of the scanner.                                              *)
(***************************************************************************)
Abs(x) == IF x < 0 THEN -x ELSE x

TotalAbsWeight(w) ==
    Abs(w.trend) + Abs(w.fundamental) + Abs(w.relative_strength)
    + Abs(w.volume) + Abs(w.valuation)

\* The weighted sum of the sub-scores of the candidate c, before rounding.
WeightedSumOf(c) ==
    LET stock == daily[c.ticker]
        fund == fundamentals[c.ticker]
    IN  WeightedSum(TrendRaw(Close(stock)), FundRaw(fund),
                    RsRaw(Close(stock), ScanSpyClose), VolRaw(VolRatio(stock)),
                    ValRaw(fund), weights)

\* C7: for every configured set of the five weights, every candidate's
\* composite score lies in [0, 100], and so does each of its five
\* sub-scores.  (The code returns the plain weighted sum: with weights that
\* sum to more than 1 the composite leaves the range.)
C7_ScoresWithin0To100 ==
    \A i \in 1..Len(candidates) :
        LET c == candidates[i]
        IN  /\ 0 <= c.composite_score /\ c.composite_score <= 10000
            /\ 0 <= c.trend_strength /\ c.trend_strength <= 10000
            /\ 0 <= c.fundamental_growth /\ c.fundamental_growth <= 10000
            /\ 0 <= c.rel_strength /\ c.rel_strength <= 10000
            /\ 0 <= c.volume_expansion /\ c.volume_expansion <= 10000
            /\ 0 <= c.valuation_vs_growth /\ c.valuation_vs_growth <= 10000

\* C8: a candidate's composite equals the weighted sum of its sub-scores
\* divided by the total absolute weight, so that scaling the five weights
\* by a common positive factor changes no composite.  (The code does not
\* divide by the total weight.)
C8_CompositeNormalised ==
    \A i \in 1..Len(candidates) :
        TotalAbsWeight(weights) > 0 =>
            candidates[i].composite_score
                = RoundDiv(WeightedSumOf(candidates[i]), TotalAbsWeight(weights))

\* C10: a ticker whose latest close is not strictly above its 200-day
\* average, or that has fewer than 200 bars, is never among the returned
\* candidates, whatever its oscillator, volume and fundamentals are.
C10_Above200OrNotListed ==
    \A i \in 1..Len(candidates) :
        LET close == Close(daily[candidates[i].ticker])
        IN  /\ Len(close) >= 200
            /\ close[Len(close)] * 200 > SumRange(close, Len(close) - 199, Len(close))

\* A finished scan that left out a ticker closing exactly on its 200-day
\* average although the ticker passes every other filter and the list had
\* room for it.
C10_Witness ==
    /\ spc = "done"
    /\ Len(candidates) < top_n
    /\ \E k \in 1..Len(scan_order) :
          LET t == scan_order[k]
              close == Close(daily[t])
          IN  /\ t \notin held_tickers
              /\ Len(close) >= 200
              /\ close[Len(close)] * 200 = SumRange(close, Len(close) - 199, Len(close))
              /\ FilterMa50Rising(daily[t])
              /\ FilterRsi(daily[t])
              /\ FilterVolume(daily[t])
              /\ FilterEarningsGrowth(fundamentals[t])
              /\ FilterBlackout(fundamentals[t], today)
              /\ \A i \in 1..Len(candidates) : candidates[i].ticker # t

(***************************************************************************)
(* allocator.py.  cash and freed_capital are in cents; min_cash_reserve    *)
(* and deployable are in hundredths of a cent, so that portfolio value     *)
(* times min_cash_pct / 100 is exact.                                      *)
(***************************************************************************)
AllocationPlan(ticker, action, shares, entry_price, stop_price, risk_per_share, capital_required, risk_amount, risk_pct_of_portfolio) ==
    [ticker |-> ticker, action |-> action, shares |-> shares,
     entry_price |-> entry_price, stop_price |-> stop_price,
     risk_per_share |-> risk_per_share, capital_required |-> capital_required,
     risk_amount |-> risk_amount, risk_pct_of_portfolio |-> risk_pct_of_portfolio]

\* allocator.py 86
CountPositions(holdings) ==
    Cardinality({i \in 1..Len(holdings) : holdings[i].current_price > 0})

\* allocator.py 119: max(1, int(h.shares * 0.25)), shares in 1/ShareDen.
TrimShares(shares) == Max(1, shares \div (4 * ShareDen))

\* allocator.py 102-133: what a holding frees, in cents.
Freed(h) ==
    IF h.decision = "EXIT" THEN h.position_value
    ELSE IF h.decision = "TRIM 25%" THEN TrimShares(h.shares) * h.current_price
    ELSE 0

\* allocator.py 106-117 and 122-133: the plan of an EXIT or TRIM holding.
ClosingPlan(h) ==
    IF h.decision = "EXIT"
    THEN AllocationPlan(h.ticker, "EXIT", h.shares \div ShareDen, h.current_price,
                        0, 0, 0, 0, 0)
    ELSE AllocationPlan(h.ticker, "TRIM", TrimShares(h.shares), h.current_price,
                        h.suggested_stop, h.risk_per_share, 0, 0, 0)

IsClosing_exits_only(h) == h.decision = "EXIT"

IsClosing(h) == h.decision \in {"EXIT", "TRIM 25%"}

\* allocator.py 99-133: the closing plans, in holdings order.
RECURSIVE ClosingPlans(_)
ClosingPlans(holdings) ==
    IF holdings = <<>> THEN <<>>
    ELSE (IF IsClosing(Head(holdings)) THEN <<ClosingPlan(Head(holdings))>> ELSE <<>>)
         \o ClosingPlans(Tail(holdings))

RECURSIVE FreedCapital(_)
FreedCapital(holdings) ==
    IF holdings = <<>> THEN 0
    ELSE Freed(Head(holdings)) + FreedCapital(Tail(holdings))

\* allocator.py 143
CountExits(plans) == Cardinality({i \in 1..Len(plans) : plans[i].action = "EXIT"})

\* allocator.py 138-140, in hundredths of a cent.
Deployable(cash_value, freed, reserve) == Max(0, 100 * (cash_value + freed) - reserve)

\* allocator.py 144
OpenSlots(limit, positions, exits) == Max(0, limit - positions + exits)

SlotsFull_late(buys, slots) == buys > slots

\* allocator.py 155
SlotsFull(buys, slots) == buys >= slots

RiskShares_full_size(portfolio_value, risk_pct, regime_multiplier, risk_per_share) ==
    IntDiv(portfolio_value * risk_pct * 10, 1000 * risk_per_share)

\* allocator.py 166, 172: int(max_risk_dollars / risk_per_share).
RiskShares(portfolio_value, risk_pct, regime_multiplier, risk_per_share) ==
    IntDiv(portfolio_value * risk_pct * regime_multiplier, 1000 * risk_per_share)

SharesWithin_unclipped(shares, price, available) == shares

\* allocator.py 176-179: the share count cut to what is deployable.
SharesWithin(shares, price, available) ==
    IF 100 * shares * price > available THEN IntDiv(available, 100 * price) ELSE shares

\* allocator.py 166-182: the shares bought of candidate c, 0 when the
\* candidate is passed over.
BuyShares(c, available) ==
    IF c.risk_per_share <= 0 THEN 0
    ELSE LET shares == RiskShares(total_value, max_risk_pct, multiplier, c.risk_per_share)
         IN  IF shares <= 0 THEN 0
             ELSE SharesWithin(shares, c.current_price, available)

\* allocator.py 184-202
BuyPlan(c, shares) ==
    AllocationPlan(c.ticker, "BUY", shares, c.current_price, c.suggested_stop,
                   c.risk_per_share, shares * c.current_price,
                   shares * c.risk_per_share,
                   RoundDiv(shares * c.risk_per_share * 10000, total_value))

\* allocator.py 89-96: the sectors of the holdings in order of first
\* appearance, and the value held in a sector.
RECURSIVE SectorsOf(_)
SectorsOf(holdings) ==
    IF holdings = <<>> THEN <<>>
    ELSE LET before == SectorsOf(SubSeq(holdings, 1, Len(holdings) - 1))
             sector == holdings[Len(holdings)].sector
         IN  IF sector \in SeqToSet(before) THEN before ELSE Append(before, sector)

RECURSIVE SectorValue(_, _)
SectorValue(holdings, sector) ==
    IF holdings = <<>> THEN 0
    ELSE (IF Head(holdings).sector = sector THEN Head(holdings).position_value ELSE 0)
         + SectorValue(Tail(holdings), sector)

\* sorted(sector_values.items(), key=-value): stable, largest value first.
RECURSIVE InsertByValue(_, _, _)
InsertByValue(sorted, sector, holdings) ==
    IF sorted = <<>> THEN <<sector>>
    ELSE IF SectorValue(holdings, Head(sorted)) >= SectorValue(holdings, sector)
         THEN <<Head(sorted)>> \o InsertByValue(Tail(sorted), sector, holdings)
         ELSE <<sector>> \o sorted

RECURSIVE SortByValue(_, _)
SortByValue(sectors, holdings) ==
    IF sectors = <<>> THEN <<>>
    ELSE InsertByValue(SortByValue(SubSeq(sectors, 1, Len(sectors) - 1), holdings),
                       sectors[Len(sectors)], holdings)

\* round(v / portfolio_value * 100, 1), in tenths of a percent.
SectorPct(holdings, sector) == RoundDiv(SectorValue(holdings, sector) * 1000, total_value)

Note(kind, sector) == [kind |-> kind, sector |-> sector]

\* allocator.py 212-217: one alert for every sector above 30%.
RECURSIVE SectorNotes(_, _)
SectorNotes(sectors, holdings) ==
    IF sectors = <<>> THEN <<>>
    ELSE (IF SectorPct(holdings, Head(sectors)) > 300
          THEN <<Note("SECTOR", Head(sectors))>> ELSE <<>>)
         \o SectorNotes(Tail(sectors), holdings)

\* allocator.py 205-220: the notes added after the candidate loop.
RiskNotes(notes, cash_value, holdings) ==
    LET cash_note == IF cash_value * 100 < min_cash_pct * total_value
                     THEN <<Note("LOW_CASH", "")>> ELSE <<>>
        all == notes \o cash_note
               \o SectorNotes(SortByValue(SectorsOf(holdings), holdings), holdings)
    IN  IF all = <<>> THEN <<Note("NONE", "")>> ELSE all

RECURSIVE TotalCapital(_)
TotalCapital(plans) ==
    IF plans = <<>> THEN 0
    ELSE Head(plans).capital_required + TotalCapital(Tail(plans))

\* allocator.py 244-278
build_weekly_plan(regime_class, plans) ==
    IF regime_class = RISK_OFF
    THEN [kind |-> "RISK_OFF", tickers |-> <<>>, positions |-> 0, total_buy |-> 0]
    ELSE IF plans = <<>>
    THEN [kind |-> "NO_OPPORTUNITIES", tickers |-> <<>>, positions |-> 0, total_buy |-> 0]
    ELSE [kind |-> IF regime_class = RISK_ON THEN "RISK_ON" ELSE "NEUTRAL",
          tickers |-> [i \in 1..Len(plans) |-> plans[i].ticker],
          positions |-> Len(plans),
          total_buy |-> TotalCapital(plans)]

(***************************************************************************)
(* compute_allocation.  cidx is the index of the candidate the loop        *)
(* reaches next; deployable is the running deployable amount.              *)
(***************************************************************************)
\* pipeline.py 106, allocator.py 76-152: everything before the candidate loop.
AllocStart ==
    /\ spc = "done"
    /\ apc = "idle"
    /\ cash' = total_value - health.total_current_value
    /\ current_positions' = CountPositions(holdings_out)
    /\ trim_exit_plans' = ClosingPlans(holdings_out)
    /\ freed_capital' = FreedCapital(holdings_out)
    /\ min_cash_reserve' = total_value * min_cash_pct
    /\ deployable' = Deployable(cash', freed_capital', min_cash_reserve')
    /\ open_slots' = OpenSlots(max_positions, current_positions', CountExits(trim_exit_plans'))
    /\ risk_notes' = IF classification = RISK_OFF THEN <<Note("RISK_OFF", "")>> ELSE <<>>
    /\ buy_plans' = <<>>
    /\ cidx' = 1
    /\ apc' = "loop"
    /\ UNCHANGED weekly_plan
    /\ UNCHANGED <<swingVars, inputVars, runVars, regimeVars, healthVars, scanVars>>

\* allocator.py 155-159: no slot or no deployable cash is left.
AllocBreak ==
    /\ apc = "loop"
    /\ cidx <= Len(candidates)
    /\ SlotsFull(Len(buy_plans), open_slots) \/ deployable <= 0
    /\ apc' = "notes"
    /\ UNCHANGED <<cidx, cash, freed_capital, min_cash_reserve, deployable,
                   current_positions, open_slots, trim_exit_plans, buy_plans,
                   risk_notes, weekly_plan>>
    /\ UNCHANGED <<swingVars, inputVars, runVars, regimeVars, healthVars, scanVars>>

\* allocator.py 154: the candidates are exhausted.
AllocExhausted ==
    /\ apc = "loop"
    /\ cidx > Len(candidates)
    /\ apc' = "notes"
    /\ UNCHANGED <<cidx, cash, freed_capital, min_cash_reserve, deployable,
                   current_positions, open_slots, trim_exit_plans, buy_plans,
                   risk_notes, weekly_plan>>
    /\ UNCHANGED <<swingVars, inputVars, runVars, regimeVars, healthVars, scanVars>>

\* allocator.py 162-163: in RISK_OFF a candidate below 90 is passed over.
AllocGate ==
    /\ apc = "loop"
    /\ cidx <= Len(candidates)
    /\ ~(SlotsFull(Len(buy_plans), open_slots) \/ deployable <= 0)
    /\ classification = RISK_OFF /\ candidates[cidx].composite_score < 9000
    /\ cidx' = cidx + 1
    /\ UNCHANGED <<apc, cash, freed_capital, min_cash_reserve, deployable,
                   current_positions, open_slots, trim_exit_plans, buy_plans,
                   risk_notes, weekly_plan>>
    /\ UNCHANGED <<swingVars, inputVars, runVars, regimeVars, healthVars, scanVars>>

\* allocator.py 169-182: no risk per share, or no share can be bought.
AllocSkip ==
    /\ apc = "loop"
    /\ cidx <= Len(candidates)
    /\ ~(SlotsFull(Len(buy_plans), open_slots) \/ deployable <= 0)
    /\ ~(classification = RISK_OFF /\ candidates[cidx].composite_score < 9000)
    /\ BuyShares(candidates[cidx], deployable) <= 0
    /\ cidx' = cidx + 1
    /\ UNCHANGED <<apc, cash, freed_capital, min_cash_reserve, deployable,
                   current_positions, open_slots, trim_exit_plans, buy_plans,
                   risk_notes, weekly_plan>>
    /\ UNCHANGED <<swingVars, inputVars, runVars, regimeVars, healthVars, scanVars>>

AllocBuy_ungated ==
    /\ apc = "loop"
    /\ cidx <= Len(candidates)
    /\ ~(SlotsFull(Len(buy_plans), open_slots) \/ deployable <= 0)
    /\ LET c == candidates[cidx]
           shares == BuyShares(c, deployable)
       IN  /\ shares > 0
           /\ buy_plans' = Append(buy_plans, BuyPlan(c, shares))
           /\ deployable' = deployable - 100 * shares * c.current_price
    /\ cidx' = cidx + 1
    /\ UNCHANGED <<apc, cash, freed_capital, min_cash_reserve,
                   current_positions, open_slots, trim_exit_plans,
                   risk_notes, weekly_plan>>
    /\ UNCHANGED <<swingVars, inputVars, runVars, regimeVars, healthVars, scanVars>>

\* allocator.py 184-203: a BUY plan, paid from the deployable amount.
AllocBuy ==
    /\ apc = "loop"
    /\ cidx <= Len(candidates)
    /\ ~(SlotsFull(Len(buy_plans), open_slots) \/ deployable <= 0)
    /\ ~(classification = RISK_OFF /\ candidates[cidx].composite_score < 9000)
    /\ LET c == candidates[cidx]
           shares == BuyShares(c, deployable)
       IN  /\ shares > 0
           /\ buy_plans' = Append(buy_plans, BuyPlan(c, shares))
           /\ deployable' = deployable - 100 * shares * c.current_price
    /\ cidx' = cidx + 1
    /\ UNCHANGED <<apc, cash, freed_capital, min_cash_reserve,
                   current_positions, open_slots, trim_exit_plans,
                   risk_notes, weekly_plan>>
    /\ UNCHANGED <<swingVars, inputVars, runVars, regimeVars, healthVars, scanVars>>

\* allocator.py 205-241: the risk notes, the weekly plan, the result.
AllocFinish ==
    /\ apc = "notes"
    /\ risk_notes' = RiskNotes(risk_notes, cash, holdings_out)
    /\ weekly_plan' = build_weekly_plan(classification, buy_plans)
    /\ apc' = "done"
    /\ UNCHANGED <<cidx, cash, freed_capital, min_cash_reserve, deployable,
                   current_positions, open_slots, trim_exit_plans, buy_plans>>
    /\ UNCHANGED <<swingVars, inputVars, runVars, regimeVars, healthVars, scanVars>>

compute_allocation ==
    AllocStart \/ AllocBreak \/ AllocExhausted \/ AllocGate \/ AllocSkip \/ AllocBuy
    \/ AllocFinish

(***************************************************************************)
(* The inputs of the allocation runs.                                      *)
(***************************************************************************)
\* total_value (cents), max_positions, min_cash_pct, max_risk_per_trade_pct:
\* the defaults on a small portfolio, a risk budget that the deployable
\* cash covers for one purchase only, a risk budget that exceeds the
\* deployable cash, a single position, a limit of as many positions as
\* there are holdings, a reserve of everything, and a
\* portfolio worth about as much as its holdings.
PortfolioConfigs ==
    {<<10000, 12, 10, 1>>, <<10000, 12, 10, 6>>, <<10000, 12, 10, 50>>,
     <<10000, 1, 10, 50>>, <<10000, 2, 10, 1>>, <<10000, 12, 100, 1>>,
     <<60, 2, 10, 50>>}

AllocInputs ==
    /\ \E cfg \in PortfolioConfigs :
          /\ total_value = cfg[1]
          /\ max_positions = cfg[2]
          /\ min_cash_pct = cfg[3]
          /\ max_risk_pct = cfg[4]
    /\ today = 0
    /\ weights = DefaultWeights
    /\ top_n = MaxTopN
    /\ cfg_holdings = <<Holding(HeldTickers[1], ShareDen * MaxShares, 10),
                        Holding(HeldTickers[2], 1, 12)>>
    \* The portfolios: a kept holding next to one without data; an exited
    \* holding next to a steady one; two kept holdings; a holding whose
    \* scoring raises; a holding that would pass every screen of the scanner
    \* next to an exited one.
    /\ \E spy \in BenchmarkInputs,
          held \in {<<<<Frames.held_strong, Funds.tech>>, <<NoStock, NoFund>>>>,
                    <<<<Frames.held_weak, DefaultFund>>,
                      <<Frames.held_steady, Funds.energy>>>>,
                    <<<<Frames.held_strong, Funds.tech>>,
                      <<Frames.held_steady, Funds.util>>>>,
                    <<<<Frames.held_weak, DefaultFund>>,
                      <<Frames.held_zero_start, Funds.tech>>>>,
                    <<<<Frames.rising, Funds.growth>>,
                      <<Frames.held_weak, DefaultFund>>>>},
          x \in {<<Frames.rising, Funds.growth>>, <<Frames.rising, NoFund>>,
                 <<Frames.at_average, Funds.growth>>, <<Frames.penny, Funds.growth>>,
                 <<Frames.zero_start, Funds.growth>>, <<NoStock, NoFund>>},
          y \in {<<Frames.surging, Funds.growth>>, <<Frames.surging, Funds.slow>>},
          z \in {<<Frames.rising, Funds.slow>>, <<NoStock, NoFund>>} :
          LET market == MarketOf(spy, held, x, y, z)
          IN  /\ daily = [t \in AllTickers |-> market[t][1]]
              /\ fundamentals = [t \in AllTickers |-> market[t][2]]
              /\ scan_order = DailyKeys(daily)

(***************************************************************************)
(* Specification of the allocator: the pipeline from the health analysis   *)
(* to the return of compute_allocation.                                    *)
(***************************************************************************)
InitAlloc == RegimeDone /\ AllocInputs /\ HealthStart /\ ScanIdle /\ AllocIdle /\ RunIdle /\ SwingIdle

NextAlloc == analyze_portfolio_health \/ scan_opportunities \/ compute_allocation

SpecAlloc == InitAlloc /\ [][NextAlloc]_vars

(***************************************************************************)
(* Properties of the allocator.                                            *)
(***************************************************************************)
AllocRunning == apc \in {"loop", "notes", "done"}

\* Sum of f[i] over 1..n.
RECURSIVE SumTo(_, _)
SumTo(f, n) == IF n = 0 THEN 0 ELSE f[n] + SumTo(f, n - 1)

\* Shares times entry price, summed over the BUY plans, in cents.
BoughtValue ==
    SumTo([i \in 1..Len(buy_plans) |-> buy_plans[i].shares * buy_plans[i].entry_price],
          Len(buy_plans))

\* The value of the EXIT positions plus trimmed shares times price, in cents.
FreedValue ==
    SumTo([i \in 1..Len(holdings_out) |->
              IF holdings_out[i].decision = "EXIT" THEN holdings_out[i].position_value
              ELSE IF holdings_out[i].decision = "TRIM 25%"
                   THEN Max(1, holdings_out[i].shares \div (4 * ShareDen))
                        * holdings_out[i].current_price
                   ELSE 0],
          Len(holdings_out))

\* max(0, cash + freed capital - reserve) with cash = portfolio value -
\* invested value and reserve = portfolio value * min_cash_pct / 100, in
\* hundredths of a cent.
InitialDeployable ==
    Max(0, 100 * ((total_value - health.total_current_value) + FreedValue)
           - total_value * min_cash_pct)

OpenSlotsOfRun ==
    Max(0, max_positions
           - Cardinality({i \in 1..Len(holdings_out) : holdings_out[i].current_price > 0})
           + Cardinality({i \in 1..Len(holdings_out) : holdings_out[i].decision = "EXIT"}))

\* C2: the number of BUY plans never exceeds the open slots
\* max(0, max_positions - open positions + EXIT plans); with no open slot
\* there is no BUY plan.
C2_BuysWithinOpenSlots ==
    AllocRunning =>
        /\ Len(buy_plans) <= OpenSlotsOfRun
        /\ OpenSlotsOfRun = 0 => buy_plans = <<>>

\* A finished allocation that filled its last open slot while a ranked
\* candidate and deployable cash were left.
C2_Witness ==
    /\ apc = "done"
    /\ OpenSlotsOfRun > 0
    /\ Len(buy_plans) = OpenSlotsOfRun
    /\ cidx <= Len(candidates)
    /\ deployable > 0

(***************************************************************************)
(* The ranking of the scanner.                                             *)
(***************************************************************************)
\* The composite of the item of `passed` at index i, as scan_opportunities
\* scores it.
CompositeOfPassed(i) == Scored(passed)[i].composite_score

\* C11: the returned candidates are in non-increasing order of composite
\* score, number at most top_n, are tickers that passed every filter, and
\* each passing ticker left out scores no more than each candidate kept.
C11_RankedTopN ==
    spc = "done" =>
        /\ \A i, j \in 1..Len(candidates) :
              i < j => candidates[i].composite_score >= candidates[j].composite_score
        /\ Len(candidates) <= top_n
        /\ \A i \in 1..Len(candidates) :
              LET t == candidates[i].ticker
              IN  /\ t \notin held_tickers
                  /\ PassesFilters(daily[t], fundamentals[t], today)
                  /\ \E k \in 1..Len(passed) : passed[k].ticker = t
        /\ \A k \in 1..Len(passed) :
              (\A i \in 1..Len(candidates) : candidates[i].ticker /= passed[k].ticker)
                 => \A i \in 1..Len(candidates) :
                        CompositeOfPassed(k) <= candidates[i].composite_score

\* A finished scan in which more tickers passed than the list keeps, the
\* one left out scores strictly less than the last one kept, and the first
\* ticker to pass is not the one ranked first.
C11_Witness ==
    /\ spc = "done"
    /\ Len(candidates) >= 1
    /\ Len(passed) > Len(candidates)
    /\ passed[1].ticker /= candidates[1].ticker
    /\ \E k \in 1..Len(passed) :
          /\ \A i \in 1..Len(candidates) : candidates[i].ticker /= passed[k].ticker
          /\ CompositeOfPassed(k) < candidates[Len(candidates)].composite_score

(***************************************************************************)
(* Repeated scans: the same market data scanned in the order of the sorted *)
(* ticker list or in the opposite order of market_data.daily's keys, on    *)
(* the reference date or ten days later.  Two scanned tickers may carry    *)
(* the same frame and fundamentals, and so the same composite.             *)
(***************************************************************************)
Reverse(s) == [i \in 1..Len(s) |-> s[Len(s) + 1 - i]]

ReferenceDate == 0
LaterDate == 10

ScanRunInputs ==
    /\ total_value = 10000
    /\ max_positions = 12
    /\ min_cash_pct = 10
    /\ max_risk_pct = 1
    /\ today \in {ReferenceDate, LaterDate}
    /\ weights = DefaultWeights
    /\ top_n \in {1, MaxTopN}
    /\ cfg_holdings = <<Holding(HeldTickers[1], ShareDen * MaxShares, 10),
                        Holding(HeldTickers[2], 1, 12)>>
    /\ \E spy \in BenchmarkInputs,
          held \in {<<<<Frames.held_strong, Funds.tech>>, <<NoStock, NoFund>>>>,
                    <<<<Frames.held_weak, DefaultFund>>,
                      <<Frames.held_zero_start, Funds.tech>>>>},
          x \in {<<Frames.rising, Funds.growth>>, <<Frames.surging, Funds.growth>>,
                 <<Frames.rising, Funds.reporting>>, <<Frames.zero_start, Funds.growth>>,
                 <<NoStock, NoFund>>},
          y \in {<<Frames.rising, Funds.growth>>, <<Frames.surging, Funds.growth>>},
          z \in {<<Frames.rising, Funds.growth>>, <<Frames.surging, Funds.slow>>},
          backwards \in BOOLEAN :
          LET market == MarketOf(spy, held, x, y, z)
          IN  /\ daily = [t \in AllTickers |-> market[t][1]]
              /\ fundamentals = [t \in AllTickers |-> market[t][2]]
              /\ scan_order = IF backwards THEN Reverse(DailyKeys(daily))
                              ELSE DailyKeys(daily)

InitScanRuns == RegimeDone /\ ScanRunInputs /\ HealthStart /\ ScanIdle /\ AllocIdle /\ RunIdle /\ SwingIdle

SpecScanRuns == InitScanRuns /\ [][NextScan]_vars

\* What scan_opportunities returns for the model's market data when the
\* tickers are scanned in the order `order` on the date `now`.
ScanResultOf(order, now) ==
    LET kept == SelectSeq(order, LAMBDA t :
                    /\ t \notin held_tickers
                    /\ PassesFilters(daily[t], fundamentals[t], now))
        items == [i \in 1..Len(kept) |->
                    [ticker |-> kept[i], rsi |-> daily[kept[i]].rsi,
                     vol_ratio |-> VolRatio(daily[kept[i]])]]
    IN  Top(SortByScore(Scored(items)), top_n)

C13_DateIndependent ==
    spc = "done" => candidates = ScanResultOf(scan_order, ReferenceDate)

(***************************************************************************)
(* scripts/daily_report.py and pipeline.py: one run of main().  ppc is the *)
(* position of the run, exc the exception in flight, reported the message  *)
(* the run logs as its error; coverage_checked tells that fetch_all has    *)
(* compared the coverage with min_data_coverage_pct; email_called,         *)
(* summary and report_file tell that send_report was called, that          *)
(* run_pipeline returned its summary and that save_json wrote the report.  *)
(***************************************************************************)
\* What load_config raises for a configuration file: config.py 128 (open),
\* 129 (json.load), 135 (h["ticker"]), 136 (float(h["shares"])).
ConfigFiles == {"ok", "missing_file", "bad_json", "missing_key", "bad_value"}

LoadConfigError(file) ==
    CASE file = "missing_file" -> "FileNotFoundError"
      [] file = "bad_json" -> "JSONDecodeError"
      [] file = "missing_key" -> "KeyError"
      [] file = "bad_value" -> "ValueError"

\* except ValueError: json.JSONDecodeError is a subclass of ValueError.
IsValueError(type) == type \in {"ValueError", "JSONDecodeError"}

CoverageBelow_never(fetched, requested, minimum) == FALSE

\* data_provider.py 192-195: coverage = len(daily) / len(tickers) * 100, or
\* 0 without tickers, compared with min_data_coverage_pct.
CoverageBelow(fetched, requested, minimum) ==
    IF requested = 0 THEN 0 < minimum
    ELSE 100 * fetched < minimum * requested

\* daily_report.py 38
MainLoadConfig ==
    /\ ppc = "main"
    /\ IF config_file = "ok"
       THEN /\ ppc' = "regime"
            /\ rpc' = "spy"
            /\ UNCHANGED exc
       ELSE /\ ppc' = "raised"
            /\ exc' = [type |-> LoadConfigError(config_file), origin |-> "load_config"]
            /\ UNCHANGED rpc
    /\ UNCHANGED <<config_file, min_data_coverage_pct, coverage_checked, reported,
                   email_called, summary, report_file>>
    /\ UNCHANGED <<macro, bullish_count, bearish_count, signals, classification,
                   multiplier>>
    /\ UNCHANGED <<swingVars, inputVars, healthVars, scanVars, allocVars>>

\* pipeline.py 59-71, data_provider.py 186-205: the market data is fetched
\* once analyze_regime has returned; fetch_all raises ValueError below the
\* coverage threshold, and the health analysis is entered otherwise.
PipelineFetchAll ==
    /\ ppc = "regime"
    /\ rpc = "done"
    /\ coverage_checked' = TRUE
    /\ IF CoverageBelow(Len(DailyKeys(daily)), Cardinality(AllTickers),
                        min_data_coverage_pct)
       THEN /\ ppc' = "raised"
            /\ exc' = [type |-> "ValueError", origin |-> "fetch_all"]
            /\ UNCHANGED hpc
       ELSE /\ ppc' = "stages"
            /\ hpc' = "loop"
            /\ UNCHANGED exc
    /\ UNCHANGED <<config_file, min_data_coverage_pct, reported, email_called,
                   summary, report_file>>
    /\ UNCHANGED <<hidx, holdings_out, actions, total_invested, total_current,
                   health>>
    /\ UNCHANGED <<swingVars, inputVars, regimeVars, scanVars, allocVars>>

\* pipeline.py 80, 93: a ZeroDivisionError raised inside a stage leaves
\* run_pipeline.
PipelineStageRaises ==
    /\ ppc = "stages"
    /\ hpc = "raised" \/ spc = "raised"
    /\ ppc' = "raised"
    /\ exc' = [type |-> "ZeroDivisionError",
               origin |-> IF hpc = "raised" THEN "analyze_portfolio_health"
                          ELSE "scan_opportunities"]
    /\ UNCHANGED <<config_file, min_data_coverage_pct, coverage_checked, reported,
                   email_called, summary, report_file>>
    /\ UNCHANGED <<swingVars, inputVars, regimeVars, healthVars, scanVars, allocVars>>

\* pipeline.py 117-121
PipelineSendReport ==
    /\ ppc = "stages"
    /\ apc = "done"
    /\ email_called' = TRUE
    /\ ppc' = "summary"
    /\ UNCHANGED <<config_file, min_data_coverage_pct, coverage_checked, exc,
                   reported, summary, report_file>>
    /\ UNCHANGED <<swingVars, inputVars, regimeVars, healthVars, scanVars, allocVars>>

\* pipeline.py 126-191
PipelineReturn ==
    /\ ppc = "summary"
    /\ summary' = TRUE
    /\ ppc' = "returned"
    /\ UNCHANGED <<config_file, min_data_coverage_pct, coverage_checked, exc,
                   reported, email_called, report_file>>
    /\ UNCHANGED <<swingVars, inputVars, regimeVars, healthVars, scanVars, allocVars>>

\* daily_report.py 40-41
MainSaveJson ==
    /\ ppc = "returned"
    /\ report_file' = TRUE
    /\ ppc' = "saved"
    /\ UNCHANGED <<config_file, min_data_coverage_pct, coverage_checked, exc,
                   reported, email_called, summary>>
    /\ UNCHANGED <<swingVars, inputVars, regimeVars, healthVars, scanVars, allocVars>>

\* daily_report.py 42-45
MainExceptValueError ==
    /\ ppc = "raised"
    /\ IsValueError(exc.type)
    /\ reported' = "Data integrity check failed"
    /\ ppc' = "exit1"
    /\ UNCHANGED <<config_file, min_data_coverage_pct, coverage_checked, exc,
                   email_called, summary, report_file>>
    /\ UNCHANGED <<swingVars, inputVars, regimeVars, healthVars, scanVars, allocVars>>

\* daily_report.py 46-48
MainExceptException ==
    /\ ppc = "raised"
    /\ ~IsValueError(exc.type)
    /\ reported' = "Pipeline failed"
    /\ ppc' = "exit1"
    /\ UNCHANGED <<config_file, min_data_coverage_pct, coverage_checked, exc,
                   email_called, summary, report_file>>
    /\ UNCHANGED <<swingVars, inputVars, regimeVars, healthVars, scanVars, allocVars>>

main ==
    \/ MainLoadConfig
    \/ PipelineFetchAll
    \/ PipelineStageRaises
    \/ PipelineSendReport
    \/ PipelineReturn
    \/ MainSaveJson
    \/ MainExceptValueError
    \/ MainExceptException

(***************************************************************************)
(* Specification of a run of main(): a configuration file, the macro       *)
(* frames and the market data of the allocation runs, under a coverage     *)
(* threshold of 50 or 80 percent of the six requested tickers.             *)
(***************************************************************************)
InitRun ==
    /\ AllocInputs
    /\ SwingIdle
    /\ config_file \in ConfigFiles
    /\ min_data_coverage_pct \in {50, 80}
    /\ ppc = "main"
    /\ coverage_checked = FALSE
    /\ exc = NoException
    /\ reported = ""
    /\ email_called = FALSE
    /\ summary = FALSE
    /\ report_file = FALSE
    /\ macro \in RegimeSamples
    /\ rpc = "idle"
    /\ bullish_count = 0
    /\ bearish_count = 0
    /\ signals = NoSignals
    /\ classification = "NONE"
    /\ multiplier = 0
    /\ HealthIdle
    /\ ScanIdle
    /\ AllocIdle

NextRun ==
    \/ main
    \/ analyze_regime
    \/ analyze_portfolio_health
    \/ scan_opportunities
    \/ compute_allocation

SpecRun == InitRun /\ [][NextRun]_vars

(***************************************************************************)
(* Properties of the run.                                                  *)
(***************************************************************************)
\* The fetched data covers less than min_data_coverage_pct percent of the
\* requested tickers.
CoverageLow ==
    100 * Cardinality({t \in AllTickers : daily[t].present})
        < min_data_coverage_pct * Cardinality(AllTickers)

\* C14: no regime classification, holding score, candidate score or
\* allocation exists in a run before the coverage of the fetched data has
\* been compared with min_data_coverage_pct and found sufficient.  (The
\* code runs analyze_regime before fetch_all.)
C14_CoverageGateFirst ==
    (\/ classification # "NONE"
     \/ holdings_out # <<>>
     \/ spc = "done"
     \/ apc # "idle")
        => coverage_checked /\ ~CoverageLow

\* C15: when the coverage is below min_data_coverage_pct the health
\* scorer, the screener and the allocator are never entered, send_report
\* is never called, no summary is returned and no report file is written;
\* once the check has been made the run is on its way to an error exit, and
\* the exit reports an error.
C15_NoOutputBelowCoverage ==
    CoverageLow =>
        /\ hpc = "idle" /\ spc = "idle" /\ apc = "idle"
        /\ ~email_called /\ ~summary /\ ~report_file
        /\ coverage_checked => ppc \in {"raised", "exit1"} /\ exc.origin = "fetch_all"
        /\ ppc = "exit1" => reported # ""

\* A run that loaded its configuration, classified the regime, found the
\* coverage below the threshold and ended with an error.
C15_Witness ==
    /\ CoverageLow
    /\ coverage_checked
    /\ config_file = "ok"
    /\ ppc = "exit1"
    /\ Cardinality({t \in AllTickers : daily[t].present}) >= 3

\* C16: a run is reported as "Data integrity check failed" if and only if
\* the coverage check failed.  (The handler catches every ValueError.)
C16_DataIntegrityNamedApart ==
    ppc = "exit1" =>
        (reported = "Data integrity check failed" <=> exc.origin = "fetch_all")

\* C17: a zero denominator in the data of one ticker (average volume,
\* moving average, average loss of the oscillator, average cost, price at
\* the start of the relative-strength window) never interrupts the health
\* scorer or the screener: neither stage raises, and the health scorer
\* returns one score for every configured holding.  (relative_strength
\* divides by the first price of the window without a guard.)
C17_ZeroDenominatorsAbsorbed ==
    /\ hpc # "raised"
    /\ spc # "raised"
    /\ hpc = "done" => Len(holdings_out) = Len(cfg_holdings)

\* The rate frame is present and its 30-bar normalised slope is not above
\* 0.001.
RateTrendFlat ==
    /\ HasBars(macro.tnx)
    /\ LET t_trend == slope(Close(macro.tnx), treasury_window)
       IN  ~(t_trend.num * 1000 > t_trend.den)

\* C18: when the benchmark is above its long moving average, its short
\* moving average is rising, its swing highs are ascending, the volatility
\* index is present and not above the threshold, and the rate trend is
\* flat, analyze_regime returns RISK_ON with multiplier 1.0, whatever the
\* sign of the benchmark's 20-bar slope.
C18_RiskOnDespiteSlope ==
    (/\ rpc = "done"
     /\ signals.spy_vs_200ma = "ABOVE"
     /\ signals.ma50_trend = "RISING"
     /\ signals.price_structure = "HIGHER_HIGHS"
     /\ signals.vix_level = "NORMAL"
     /\ RateTrendFlat)
        => classification = RISK_ON /\ multiplier = 10

\* A finished analysis with those five findings whose 20-bar slope is not
\* positive and whose rate trend rises by less than 0.001: one bearish
\* count, RISK_ON.
C18_Witness ==
    /\ rpc = "done"
    /\ signals.spy_vs_200ma = "ABOVE"
    /\ signals.ma50_trend = "RISING"
    /\ signals.price_structure = "HIGHER_HIGHS"
    /\ signals.vix_level = "NORMAL"
    /\ RateTrendFlat
    /\ signals.treasury_trend = "RISING"
    /\ signals.trend_20d = "DOWN"
    /\ bullish_count = 4
    /\ bearish_count = 1
    /\ classification = RISK_ON
    /\ multiplier = 10

(***************************************************************************)
(* higher_highs and lower_highs on their own: the two calls of             *)
(* regime.py 113-114 on series built from three swings between troughs at  *)
(* 8, each swing a peak, a two-bar plateau, a peak followed by a missing   *)
(* value or no swing at all, with or without an older, higher swing in     *)
(* front, and with windows shorter and longer than the series.             *)
(***************************************************************************)
SwingBlocks ==
    UNION {{<<8, v, 8>>, <<8, v, v>>, <<8, v, NaN>>} : v \in {8, 10, 11, 12}}

SwingSeries ==
    {pre \o <<8>> \o b1 \o b2 \o b3 \o <<8>> :
        pre \in {<<>>, <<8, 8, 20, 8, 8>>},
        b1 \in SwingBlocks, b2 \in SwingBlocks, b3 \in SwingBlocks}
    \cup {<<8>> \o b1 \o b2 \o <<8>> : b1 \in SwingBlocks, b2 \in SwingBlocks}

SwingWindows == {4, 6, 12}

InitSwing ==
    /\ RegimeInputs /\ RegimeInit /\ HealthIdle /\ ScanIdle /\ AllocIdle /\ RunIdle
    /\ macro = [spy |-> NoStock, vix |-> NoStock, tnx |-> NoStock]
    /\ swing_series \in SwingSeries
    /\ swing_window \in SwingWindows
    /\ swing_pc = "higher_highs"
    /\ swing_hh = FALSE
    /\ swing_lh = FALSE

\* hh = higher_highs(close, window)
SwingHigherHighs ==
    /\ swing_pc = "higher_highs"
    /\ swing_hh' = higher_highs(swing_series, swing_window)
    /\ swing_pc' = "lower_highs"
    /\ UNCHANGED <<swing_series, swing_window, swing_lh>>
    /\ UNCHANGED <<inputVars, runVars, regimeVars, healthVars, scanVars, allocVars>>

\* lh = lower_highs(close, window)
SwingLowerHighs ==
    /\ swing_pc = "lower_highs"
    /\ swing_lh' = lower_highs(swing_series, swing_window)
    /\ swing_pc' = "done"
    /\ UNCHANGED <<swing_series, swing_window, swing_hh>>
    /\ UNCHANGED <<inputVars, runVars, regimeVars, healthVars, scanVars, allocVars>>

NextSwing == SwingHigherHighs \/ SwingLowerHighs

SpecSwing == InitSwing /\ [][NextSwing]_vars

(***************************************************************************)
(* Properties of the swing detection.                                      *)
(***************************************************************************)
\* The usable bars of the series, and the last 2 x window of them.
UsableBars == SelectSeq(swing_series, LAMBDA x : x # NaN)

TrailingBars ==
    IF Len(UsableBars) <= 2 * swing_window THEN UsableBars
    ELSE SubSeq(UsableBars, Len(UsableBars) - 2 * swing_window + 1, Len(UsableBars))

\* The positions of the trailing bars that are strictly above both
\* neighbours on each side.
PeakBars ==
    {i \in 3..(Len(TrailingBars) - 2) :
        \A k \in {1, 2} : /\ TrailingBars[i] > TrailingBars[i - k]
                          /\ TrailingBars[i] > TrailingBars[i + k]}

\* j is the peak that follows the peak i.
NextPeak(i, j) ==
    /\ i \in PeakBars /\ j \in PeakBars /\ i < j
    /\ ~\E k \in PeakBars : i < k /\ k < j

\* The peaks are, in order, a, b and c.
PeaksAre(a, b, c) ==
    /\ Cardinality(PeakBars) = 3
    /\ \E i, j, k \in PeakBars :
        /\ NextPeak(i, j) /\ NextPeak(j, k)
        /\ TrailingBars[i] = a /\ TrailingBars[j] = b /\ TrailingBars[k] = c

\* C19: for a series with at least `window` usable bars, higher_highs is
\* true exactly when the trailing 2 x window bars hold at least 2 local
\* peaks and every peak is strictly above its predecessor; lower_highs is
\* true exactly when there are at least 2 peaks and every peak is strictly
\* below its predecessor; two equal consecutive peaks make both false; the
\* two are never true together; peaks 10,11,12 give true/false, 12,11,10
\* give false/true and 10,10,12 give false/false.
C19_SwingPatterns ==
    (swing_pc = "done" /\ Len(UsableBars) >= swing_window) =>
        /\ swing_hh <=>
              /\ Cardinality(PeakBars) >= 2
              /\ \A i, j \in PeakBars :
                    NextPeak(i, j) => TrailingBars[j] > TrailingBars[i]
        /\ swing_lh <=>
              /\ Cardinality(PeakBars) >= 2
              /\ \A i, j \in PeakBars :
                    NextPeak(i, j) => TrailingBars[j] < TrailingBars[i]
        /\ (\E i, j \in PeakBars :
                NextPeak(i, j) /\ TrailingBars[j] = TrailingBars[i])
              => ~swing_hh /\ ~swing_lh
        /\ ~(swing_hh /\ swing_lh)
        /\ PeaksAre(10, 11, 12) => swing_hh /\ ~swing_lh
        /\ PeaksAre(12, 11, 10) => ~swing_hh /\ swing_lh
        /\ PeaksAre(10, 10, 12) => ~swing_hh /\ ~swing_lh

\* Both calls returned for a series with enough usable bars whose three
\* peaks are 10, 10 and 12: neither pattern is reported.
C19_Witness ==
    /\ swing_pc = "done"
    /\ Len(UsableBars) >= swing_window
    /\ PeaksAre(10, 10, 12)
    /\ ~swing_hh
    /\ ~swing_lh

(***************************************************************************)
(* Properties of the RISK_OFF gate.                                        *)
(***************************************************************************)
\* The candidates the loop has already been through.
Considered == 1..(cidx - 1)

\* C20: in a RISK_OFF regime every BUY plan of compute_allocation is for a
\* candidate whose composite score is at least 90; candidates below 90
\* take no slot and no deployable cash; and the loop goes on to the
\* lower-ranked candidates: it ends only when the candidates, the slots or
\* the deployable cash are exhausted.
C20_RiskOffBuysExceptional ==
    (classification = RISK_OFF /\ AllocRunning) =>
        /\ \A i \in 1..Len(buy_plans) :
              \E j \in Considered :
                 /\ candidates[j].ticker = buy_plans[i].ticker
                 /\ candidates[j].composite_score >= 9000
        /\ Len(buy_plans)
              <= Cardinality({j \in Considered : candidates[j].composite_score >= 9000})
        /\ (\A j \in Considered : candidates[j].composite_score < 9000)
              => /\ buy_plans = <<>>
                 /\ deployable = InitialDeployable
        /\ (/\ apc # "loop"
            /\ ~SlotsFull(Len(buy_plans), open_slots)
            /\ deployable > 0)
              => cidx = Len(candidates) + 1

\* A finished RISK_OFF allocation: the first candidate, at 90 or more, was
\* bought; the next one, below 90, was passed over with a slot and
\* deployable cash left; every candidate was considered.
C20_Witness ==
    /\ classification = RISK_OFF
    /\ apc = "done"
    /\ Len(candidates) >= 2
    /\ candidates[1].composite_score >= 9000
    /\ candidates[2].composite_score < 9000
    /\ Len(buy_plans) = 1
    /\ buy_plans[1].ticker = candidates[1].ticker
    /\ ~SlotsFull(Len(buy_plans), open_slots)
    /\ deployable > 0
    /\ cidx = Len(candidates) + 1

(***************************************************************************)
(* Properties of the risk notes.                                           *)
(***************************************************************************)
\* The cash left after the holdings is below min_cash_pct percent of the
\* portfolio value.
CashBelowMinimum == cash * 100 < min_cash_pct * total_value

\* The sectors of the holdings that hold more than 30% of the portfolio
\* value.
ConcentratedSectors ==
    {s \in SeqToSet(SectorsOf(holdings_out)) :
        SectorValue(holdings_out, s) * 100 > 30 * total_value}

NotesOfKind(kind) ==
    {i \in 1..Len(risk_notes) : risk_notes[i].kind = kind}

\* C21: the risk notes of a finished allocation are never empty; a cash
\* note is present iff the cash percentage is below the minimum; there is
\* one sector note for exactly the sectors above 30% of the portfolio
\* value; and when neither rule triggers the notes are exactly the one
\* 'no elevated risk' note, in every regime.  (In RISK_OFF the list
\* already holds the regime note, so the 'no elevated risk' note is not
\* added.)
C21_RiskNotesFixedRules ==
    apc = "done" =>
        /\ risk_notes # <<>>
        /\ NotesOfKind("LOW_CASH") # {} <=> CashBelowMinimum
        /\ {risk_notes[i].sector : i \in NotesOfKind("SECTOR")} = ConcentratedSectors
        /\ Cardinality(NotesOfKind("SECTOR")) = Cardinality(ConcentratedSectors)
        /\ (~CashBelowMinimum /\ ConcentratedSectors = {})
              => risk_notes = <<Note("NONE", "")>>

(***************************************************************************)
(* Properties of the closing plans.                                        *)
(***************************************************************************)
\* The positions in holdings_out of the holdings to close, and the k-th of
\* them.
ClosingHoldings ==
    {i \in 1..Len(holdings_out) : holdings_out[i].decision \in {"EXIT", "TRIM 25%"}}

NthClosing(k) ==
    CHOOSE i \in ClosingHoldings : Cardinality({j \in ClosingHoldings : j <= i}) = k

\* C22: compute_allocation produces one closing plan for each EXIT
\* holding (action EXIT) and each TRIM 25% holding (action TRIM), none for
\* a STRONG HOLD or HOLD holding, in holdings order; every closing plan has
\* capital_required, risk_amount and risk_pct_of_portfolio 0; and no
\* closing plan is among the BUY plans.
C22_ClosingPlans ==
    AllocRunning =>
        /\ Len(trim_exit_plans) = Cardinality(ClosingHoldings)
        /\ \A k \in 1..Len(trim_exit_plans) :
              LET h == holdings_out[NthClosing(k)]
                  p == trim_exit_plans[k]
              IN  /\ p.ticker = h.ticker
                  /\ p.action = (IF h.decision = "EXIT" THEN "EXIT" ELSE "TRIM")
                  /\ p.capital_required = 0
                  /\ p.risk_amount = 0
                  /\ p.risk_pct_of_portfolio = 0
        /\ \A i \in 1..Len(buy_plans) :
              /\ buy_plans[i].action = "BUY"
              /\ buy_plans[i] \notin SeqToSet(trim_exit_plans)

\* A finished allocation with a HOLD or STRONG HOLD holding followed by a
\* TRIM 25% holding: one plan, a TRIM, next to a BUY plan.
C22_Witness ==
    /\ apc = "done"
    /\ Len(holdings_out) = 2
    /\ holdings_out[1].decision \in {"HOLD", "STRONG HOLD"}
    /\ holdings_out[2].decision = "TRIM 25%"
    /\ Len(trim_exit_plans) = 1
    /\ trim_exit_plans[1].action = "TRIM"
    /\ buy_plans # <<>>

\* C23: the share count of a TRIM plan is 25% of the shares held rounded
\* down, raised to 1 when that is zero; it never exceeds the number of
\* shares held, so the capital a trim frees (shares times price) never
\* exceeds the value of the position.  (Holding.shares is a float: of less
\* than one share held, one whole share is trimmed.)
C23_TrimWithinHolding ==
    AllocRunning =>
        \A k \in 1..Len(trim_exit_plans) :
            LET h == holdings_out[NthClosing(k)]
                p == trim_exit_plans[k]
                quarter == h.shares \div (4 * ShareDen)
            IN  p.action = "TRIM" =>
                   /\ p.shares = (IF quarter = 0 THEN 1 ELSE quarter)
                   /\ p.shares * ShareDen <= h.shares
                   /\ p.shares * p.entry_price * ShareDen <= h.shares * h.current_price

(***************************************************************************)
(* Properties of the position sizing.                                      *)
(***************************************************************************)
\* The deployable amount left when the i-th BUY plan was sized, in
\* hundredths of a cent.
DeployableBefore(i) ==
    InitialDeployable
    - 100 * SumTo([j \in 1..Len(buy_plans) |->
                      buy_plans[j].shares * buy_plans[j].entry_price], i - 1)

\* floor(maxRiskDollars / riskPerShare) with maxRiskDollars = portfolio
\* value x max_risk_per_trade_pct / 100 x regime multiplier.
SharesByRisk(risk) == (total_value * max_risk_pct * multiplier) \div (1000 * risk)

\* C24: every BUY plan has a positive share count equal to the smaller of
\* floor(maxRiskDollars / riskPerShare) and floor(deployable / price), so
\* its shares times risk per share are at most maxRiskDollars; a candidate
\* with a non-positive risk per share, or for which the share count is 0,
\* gets no BUY plan.
C24_PositionSize ==
    AllocRunning =>
        /\ \A i \in 1..Len(buy_plans) :
              LET p == buy_plans[i]
              IN  /\ p.shares > 0
                  /\ p.risk_per_share > 0
                  /\ p.shares = Min(SharesByRisk(p.risk_per_share),
                                    DeployableBefore(i) \div (100 * p.entry_price))
                  /\ p.shares * p.risk_per_share * 1000
                        <= total_value * max_risk_pct * multiplier
                  /\ p.risk_amount = p.shares * p.risk_per_share
        /\ \A j \in Considered :
              (\/ candidates[j].risk_per_share <= 0
               \/ SharesByRisk(candidates[j].risk_per_share) = 0)
                 => \A i \in 1..Len(buy_plans) : buy_plans[i].ticker # candidates[j].ticker

\* A finished allocation outside RISK_ON with two BUY plans, the first
\* sized by the risk budget and the second cut to the deployable amount
\* that was left.
C24_Witness ==
    /\ apc = "done"
    /\ classification # RISK_ON
    /\ Len(buy_plans) = 2
    /\ buy_plans[1].shares = SharesByRisk(buy_plans[1].risk_per_share)
    /\ buy_plans[2].shares < SharesByRisk(buy_plans[2].risk_per_share)
    /\ buy_plans[2].shares = DeployableBefore(2) \div (100 * buy_plans[2].entry_price)

(***************************************************************************)
(* Properties of the regime engine without a benchmark.                    *)
(***************************************************************************)
\* The volatility index is present and its latest close is above the
\* threshold; the rate series is present and its trend is above 0.001.
VixElevated ==
    /\ HasBars(macro.vix)
    /\ Close(macro.vix)[macro.vix.n] > vix_elevated_threshold

RateTrendRising == HasBars(macro.tnx) /\ ~RateTrendFlat

\* C25: when the benchmark series is missing or empty, the benchmark tests
\* add two bearish counts and no bullish count; the classification is
\* never RISK_ON; it is RISK_OFF exactly when the volatility index is
\* present and elevated and the rate series is present with a rising trend
\* (above 0.001), NEUTRAL otherwise; and every section of analyze_regime
\* leaves the call in its next section or at its end, with a result.
C25_MissingBenchmark ==
    ~HasBars(macro.spy) =>
        /\ rpc \in {"spy", "vix", "treasury", "classify", "done"}
        /\ rpc = "spy" => bullish_count = 0 /\ bearish_count = 0
        /\ rpc = "vix" => bullish_count = 0 /\ bearish_count = 2
        /\ rpc \in {"treasury", "classify", "done"} =>
              /\ bullish_count = (IF HasBars(macro.vix) /\ ~VixElevated THEN 1 ELSE 0)
              /\ bearish_count >= 2
        /\ rpc = "done" =>
              /\ classification # RISK_ON
              /\ classification = RISK_OFF <=> (VixElevated /\ RateTrendRising)
              /\ classification = NEUTRAL <=> ~(VixElevated /\ RateTrendRising)
              /\ multiplier = MULTIPLIERS[classification]

\* A finished analysis with an empty benchmark frame, an elevated
\* volatility index and rising rates: four bearish counts, RISK_OFF.
C25_Witness ==
    /\ rpc = "done"
    /\ macro.spy.present
    /\ macro.spy.n = 0
    /\ VixElevated
    /\ RateTrendRising
    /\ bullish_count = 0
    /\ bearish_count = 4
    /\ classification = RISK_OFF

(***************************************************************************)
(* Properties of the valuation sub-score.                                  *)
(***************************************************************************)
\* forward_pe / (earnings_growth x 100) is below k; earnings_growth is kept
\* in percent, and a ratio with a zero denominator is below nothing.
PegBelow(f, k) ==
    \/ f.earnings_growth > 0 /\ f.forward_pe < k * f.earnings_growth
    \/ f.earnings_growth < 0 /\ f.forward_pe > k * f.earnings_growth

ValuationInputsPresent(f) ==
    f.present /\ f.forward_pe # None /\ f.earnings_growth # None

\* C26: the valuation-vs-growth sub-score of a candidate is 80 when
\* forward_pe / (earnings_growth x 100) is below 1, 60 when below 2, 40
\* when below 3 and 20 otherwise, for every present forward_pe and
\* earnings_growth; it is 50 exactly when one of the two is absent; a
\* present value of zero counts as present.  (The code tests the two
\* values for truth, so a zero is taken as absent.)
C26_ValuationBuckets ==
    spc = "done" =>
        \A i \in 1..Len(candidates) :
            LET c == candidates[i]
                f == fundamentals[c.ticker]
            IN  /\ c.valuation_vs_growth = 5000 <=> ~ValuationInputsPresent(f)
                /\ ValuationInputsPresent(f) =>
                      c.valuation_vs_growth =
                          (IF PegBelow(f, 1) THEN 8000
                           ELSE IF PegBelow(f, 2) THEN 6000
                           ELSE IF PegBelow(f, 3) THEN 4000
                           ELSE 2000)

(***************************************************************************)
(* Properties of the weekly deployment narrative.                          *)
(***************************************************************************)
\* C27: with no BUY plan the weekly narrative is the 'no new
\* opportunities' text; with at least one BUY plan it is the deployment
\* text of the regime, naming the BUY plans' tickers in order, their count
\* and their total capital; it never is the text that tells not to
\* initiate new positions while the result holds a BUY plan.  (In RISK_OFF
\* the code returns the RISK_OFF text before it looks at the BUY plans.)
C27_WeeklyNarrative ==
    apc = "done" =>
        /\ buy_plans = <<>> => weekly_plan.kind = "NO_OPPORTUNITIES"
        /\ buy_plans # <<>> =>
              /\ weekly_plan.kind = classification
              /\ weekly_plan.tickers = [i \in 1..Len(buy_plans) |-> buy_plans[i].ticker]
              /\ weekly_plan.positions = Len(buy_plans)
              /\ weekly_plan.total_buy
                    = SumTo([i \in 1..Len(buy_plans) |-> buy_plans[i].capital_required],
                            Len(buy_plans))
        /\ ~(buy_plans # <<>> /\ weekly_plan = build_weekly_plan(RISK_OFF, <<>>))

(***************************************************************************)
(* Properties of the position limit.                                       *)
(***************************************************************************)
\* The positions held once the allocation result is carried out: the
\* configured holdings, less those with an EXIT plan, plus the BUY plans.
PositionsAfter ==
    Len(cfg_holdings)
    - Cardinality({i \in 1..Len(trim_exit_plans) : trim_exit_plans[i].action = "EXIT"})
    + Len(buy_plans)

\* C28: if the portfolio starts with at most max_positions holdings, the
\* positions held after the allocation result is carried out are at most
\* max_positions, also when a holding has no price data and is scored
\* EXIT.  (Such a holding is left out of the position count and counted
\* again as an exit, so it opens two slots.)
C28_PositionLimit ==
    (apc = "done" /\ Len(cfg_holdings) <= max_positions)
        => PositionsAfter <= max_positions

(***************************************************************************)
(* Properties of the health score without fundamentals.                    *)
(***************************************************************************)
\* C29: a holding that has price data but no fundamentals record, with a
\* trend score of 3 and a relative-strength score of 2, has a total of at
\* least 6 and so is kept (HOLD or STRONG HOLD) in every regime: the
\* missing record costs the fundamental points only.  (Without a record
\* the sector is "Unknown", which earns no sector-alignment point in
\* RISK_ON and RISK_OFF.)
C29_NoFundamentalsStillHold ==
    \A i \in 1..Len(holdings_out) :
        LET h == holdings_out[i]
        IN  (/\ HasBars(daily[h.ticker])
             /\ ~fundamentals[h.ticker].present
             /\ h.trend_score = 3
             /\ h.relative_strength_score = 2)
               => /\ h.fundamental_score = 0
                  /\ h.total_score >= 6
                  /\ h.decision \in {"HOLD", "STRONG HOLD"}


\* ---------------------------------------------------------------------------
\* C30 (scanner.py 104-108, allocator.py 102-133, 154-202): a ticker that is a
\* configured holding is never among the scanner's candidates, so it never
\* gets a BUY plan; every closing plan (TRIM or EXIT) carries a holding's
\* ticker, therefore no ticker has both a closing plan and a BUY plan in the
\* same allocation result.
PlanTickers(plans) == {plans[i].ticker : i \in 1..Len(plans)}

\* config.py 130-140: the tickers of the configured holdings.
ConfiguredHoldings == {cfg_holdings[k].ticker : k \in 1..Len(cfg_holdings)}

C30_HeldNeverBought ==
    /\ \A i \in 1..Len(candidates) : candidates[i].ticker \notin ConfiguredHoldings
    /\ PlanTickers(buy_plans) \cap ConfiguredHoldings = {}
    /\ PlanTickers(trim_exit_plans) \subseteq ConfiguredHoldings
    /\ PlanTickers(buy_plans) \cap PlanTickers(trim_exit_plans) = {}

\* A finished allocation with a closing plan and a BUY plan, where a holding
\* has the very price history and fundamentals of a ticker that did become a
\* candidate, so only the held-ticker skip kept it out.
C30_Witness ==
    /\ apc = "done"
    /\ Len(buy_plans) > 0
    /\ Len(trim_exit_plans) > 0
    /\ \E t \in ConfiguredHoldings, i \in 1..Len(candidates) :
          /\ daily[t] = daily[candidates[i].ticker]
          /\ fundamentals[t] = fundamentals[candidates[i].ticker]
====
